---- MODULE Spec2Model ----
(***************************************************************************)
(* Model of the fetch cache of the dashboard frontend                      *)
(* (src/frontend/src/api.ts, lines 1-131): fetchHistoricalSummary and      *)
(* fetchHistoricalByDate wrap a network fetch with a localStorage cache    *)
(* (getCachedData / setCachedData).                                        *)
(*                                                                         *)
(* JavaScript runs the synchronous part of a call to completion, so one    *)
(* action models the code of a call up to its first await, one the code    *)
(* from the settlement of the fetch to the await of response.json(), and   *)
(* one the code from the settlement of response.json() to the return.      *)
(***************************************************************************)
EXTENDS Integers, Sequences, FiniteSets, TLC

(***************************************************************************)
(* Program constants (api.ts:6-8).                                         *)
(***************************************************************************)
CACHE_KEY_SUMMARY_PREFIX == "historical_summary_cache_"
CACHE_KEY_DATE_PREFIX == "historical_date_cache_"
CACHE_TTL == 5 * 60 * 1000

(***************************************************************************)
(* Bounds of the model.                                                    *)
(***************************************************************************)
\* Date.now() advances in steps of TickMs milliseconds, at most MaxTicks times.
TickMs == 150000
MaxTicks == 2
\* Number of calls of the fetch functions in one behaviour (they may overlap).
MaxCalls == 2

Calls == 1..MaxCalls

\* Arguments the views pass: ChartView passes 7, 30 or 1000 days (App.tsx:79),
\* DetailViewRoute the date of the route (App.tsx:151).
SummaryDays == {30}
Dates == {"2025-01-15"}

(***************************************************************************)
(* HistoricalResponse values (types.ts:31-34).  machines is a sequence of  *)
(* [name, runs] entries, runs a sequence of run identifiers.  shape tells  *)
(* a JSON object from the values null / undefined that a stored entry's    *)
(* data field can also hold.  metrics tells what the geomean of the runs   *)
(* is (types.ts:27): "finite" for a number that is not negative,           *)
(* "negative", "Infinity", "-Infinity" or "null".                          *)
(***************************************************************************)
Response(days, hasMachines, machines) ==
    [shape |-> "object", days |-> days, hasMachines |-> hasMachines, machines |-> machines,
     metrics |-> "finite"]

NullData ==
    [shape |-> "null", days |-> 0, hasMachines |-> FALSE, machines |-> <<>>,
     metrics |-> "finite"]
UndefinedData ==
    [shape |-> "undefined", days |-> 0, hasMachines |-> FALSE, machines |-> <<>>,
     metrics |-> "finite"]

\* {"days": 30}: no machines map at all.
PNoMachines == Response(30, FALSE, <<>>)
\* {"days": 30, "machines": {"blueberry": []}}: a machine with no runs.
PEmpty == Response(30, TRUE, <<[name |-> "blueberry", runs |-> <<>>]>>)
\* One machine, one run.
POne == Response(30, TRUE, <<[name |-> "blueberry", runs |-> <<1>>]>>)
\* Two machines, the first without runs, the second with two runs.
PTwo == Response(30, TRUE, <<[name |-> "blueberry", runs |-> <<>>],
                             [name |-> "ripley", runs |-> <<2, 3>>]>>)

\* One machine with one run whose geomean is negative.
PNegative == [POne EXCEPT !.metrics = "negative"]
\* One machine with one run whose geomean is Infinity or -Infinity:
\* response.json() yields them for a number literal beyond the range of a
\* double, such as 1e999 and -1e999.
PInfinite == [POne EXCEPT !.metrics = "Infinity"]
PNegInfinite == [POne EXCEPT !.metrics = "-Infinity"]
\* One machine with one run whose geomean is null.
PNullMetric == [POne EXCEPT !.metrics = "null"]
hasNonFiniteMetric(data) == data.metrics \in {"Infinity", "-Infinity"}
hasMalformedMetric(data) == data.metrics = "negative" \/ hasNonFiniteMetric(data)

\* Bodies a 2xx response can carry.
FetchPayloads == {PEmpty, POne, PInfinite}
\* Payloads of entries that earlier sessions left in the store.
StoredPayloads == {PNoMachines, PTwo}

(***************************************************************************)
(* Items of localStorage.  kind "none": no item (getItem returns null);    *)
(* "empty": the empty string; "garbage": text JSON.parse rejects; "null":  *)
(* the text null; "object": the text of a JSON object with an optional     *)
(* timestamp and a data field.                                             *)
(***************************************************************************)
Item(kind, hasTimestamp, timestamp, data) ==
    [kind |-> kind, hasTimestamp |-> hasTimestamp, timestamp |-> timestamp, data |-> data]

NoItem == Item("none", FALSE, 0, UndefinedData)
EmptyText == Item("empty", FALSE, 0, UndefinedData)
Garbage == Item("garbage", FALSE, 0, UndefinedData)
NullText == Item("null", FALSE, 0, UndefinedData)

StoreOps == {"getItem", "setItem", "removeItem"}

VARIABLES
    now,      \* Date.now()
    store,    \* localStorage: cache key -> item
    faulty,   \* the operations of localStorage that currently throw
    calls,    \* call -> state of that call of a fetch function
    last,     \* how the call that settled last ended
    cleared,  \* the last call of clearHistoricalDataCache: how it returned and
              \* the store it found
    runs,     \* the runs that the fetches delivered, flattened (allRuns)
    route,    \* params.date of the detail route
    chart,    \* what PerformanceChart last plotted
    detail,   \* what DetailViewRoute last passed on and DetailView grouped
    comparison, \* the pair of runs of a machine tab and its comparison rows
    display,  \* a speedup and the texts that utils formatted it to
    table,    \* BenchmarkTable: its rows, its sort state and the cells it shows
    load,     \* the resource of a view and what the view shows for it
    goal,     \* the goal lines of ChartView, the URL and the stored value
    tabs      \* DetailView: the available machines and the selected tab

\* The state of the fetch cache and the state of the other parts of the
\* frontend, which the specifications below take one at a time.
cacheVars == <<now, store, faulty, calls, last>>
tableVars == <<comparison, display>>
widgetVars == <<table, load, goal, tabs>>
viewVars == <<runs, route, chart, detail, comparison, display, table, load, goal, tabs>>
otherVars ==
    <<cleared, runs, route, chart, detail, comparison, display, table, load, goal, tabs>>
vars ==
    <<now, store, faulty, calls, last, cleared, runs, route, chart, detail, comparison, display,
      table, load, goal, tabs>>

(***************************************************************************)
(* Cache keys (api.ts:66 and api.ts:95).                                   *)
(***************************************************************************)
summaryCacheKey(days) == CACHE_KEY_SUMMARY_PREFIX \o ToString(days)
dateCacheKey(date) == CACHE_KEY_DATE_PREFIX \o date

SummaryKeys == {summaryCacheKey(d) : d \in SummaryDays}
DateKeys == {dateCacheKey(d) : d \in Dates}
CacheKeys == SummaryKeys \cup DateKeys

(***************************************************************************)
(* JSON.stringify of a CachedData object and JSON.parse of an item's text. *)
(* JSON_parse yields [throws, isNull, hasTimestamp, timestamp, data]:      *)
(* throws for text that is no JSON, isNull for the text null.              *)
(***************************************************************************)
\* JSON.stringify writes a number that is not finite as null: the data as
\* the text of the item holds it.
stringified(data) ==
    IF hasNonFiniteMetric(data) THEN [data EXCEPT !.metrics = "null"] ELSE data

\* A serialisation that loses the timestamp.
JSON_stringify_dropsTimestamp(data, timestamp) == Item("object", FALSE, 0, stringified(data))

JSON_stringify(data, timestamp) == Item("object", TRUE, timestamp, stringified(data))

JSON_parse(cached) ==
    [throws |-> cached.kind = "garbage",
     isNull |-> cached.kind = "null",
     hasTimestamp |-> cached.kind = "object" /\ cached.hasTimestamp,
     timestamp |-> cached.timestamp,
     data |-> IF cached.kind = "object" THEN cached.data ELSE UndefinedData]

\* Sum of the lengths of a sequence of [name, runs] entries.
RECURSIVE SumRuns(_)
SumRuns(machines) ==
    IF machines = <<>> THEN 0
    ELSE Len(Head(machines).runs) + SumRuns(Tail(machines))

\* Counts the machines instead of their runs.
totalRuns_countsMachines(data) ==
    IF data.shape = "object" /\ data.hasMachines THEN Len(data.machines) ELSE 0

\* api.ts:26-27: machines = data?.machines || {}; the runs of all machines.
totalRuns(data) ==
    IF data.shape = "object" /\ data.hasMachines THEN SumRuns(data.machines) ELSE 0

\* A removeItem that leaves the item in place.
removeItem_noop(s, cacheKey) == s

\* localStorage.removeItem(cacheKey) on store s.
removeItem(s, cacheKey) == [s EXCEPT ![cacheKey] = NoItem]

\* The comparison of api.ts:24 turned around.
isStillValid_flipped(timestamp) == now - timestamp > CACHE_TTL

\* api.ts:24: now - cachedData.timestamp < CACHE_TTL.
isStillValid(timestamp) == now - timestamp < CACHE_TTL

\* What a cache function leaves: the value it returns (NullData for null),
\* the store, whether an exception leaves the function, and the return
\* statement it ended in: "absent" (api.ts:18), "empty" (api.ts:31), "hit"
\* (api.ts:33), "expired" (api.ts:38), "caught" (api.ts:46), "set" (api.ts:60).
CacheResult(ret, s, throws, path) == [ret |-> ret, store |-> s, throws |-> throws, path |-> path]

\* api.ts:39-46: the catch block of getCachedData; its removeItem may throw,
\* which the inner try swallows.
getCachedData_catch(cacheKey) ==
    CacheResult(NullData,
                IF "removeItem" \in faulty THEN store ELSE removeItem(store, cacheKey),
                FALSE, "caught")

\* A getCachedData that gives the entries of fetchHistoricalByDate a TTL of
\* 24 hours.
getCachedData_longDateTTL(cacheKey) ==
    IF "getItem" \in faulty THEN getCachedData_catch(cacheKey)
    ELSE LET cached == store[cacheKey]
             ttl == IF cacheKey \in {CACHE_KEY_DATE_PREFIX \o d : d \in Dates}
                    THEN 24 * 60 * 60 * 1000 ELSE CACHE_TTL
         IN
    IF cached.kind \in {"none", "empty"} THEN CacheResult(NullData, store, FALSE, "absent")
    ELSE LET cachedData == JSON_parse(cached) IN
    IF cachedData.throws \/ cachedData.isNull THEN getCachedData_catch(cacheKey)
    ELSE IF cachedData.hasTimestamp /\ now - cachedData.timestamp < ttl
    THEN IF totalRuns(cachedData.data) = 0
         THEN CacheResult(NullData, removeItem(store, cacheKey), FALSE, "empty")
         ELSE CacheResult(cachedData.data, store, FALSE, "hit")
    ELSE CacheResult(NullData, removeItem(store, cacheKey), FALSE, "expired")

(***************************************************************************)
(* getCachedData (api.ts:15-48).                                           *)
(***************************************************************************)
getCachedData(cacheKey) ==
    IF "getItem" \in faulty THEN getCachedData_catch(cacheKey)
    ELSE LET cached == store[cacheKey] IN
    IF cached.kind \in {"none", "empty"} THEN CacheResult(NullData, store, FALSE, "absent")
    ELSE LET cachedData == JSON_parse(cached) IN
    IF cachedData.throws \/ cachedData.isNull THEN getCachedData_catch(cacheKey)
    ELSE IF cachedData.hasTimestamp /\ isStillValid(cachedData.timestamp)
    THEN IF totalRuns(cachedData.data) = 0
         THEN IF "removeItem" \in faulty THEN getCachedData_catch(cacheKey)
              ELSE CacheResult(NullData, removeItem(store, cacheKey), FALSE, "empty")
         ELSE CacheResult(cachedData.data, store, FALSE, "hit")
    ELSE IF "removeItem" \in faulty THEN getCachedData_catch(cacheKey)
         ELSE CacheResult(NullData, removeItem(store, cacheKey), FALSE, "expired")

\* A setCachedData without its try: a throwing setItem leaves the function.
setCachedData_throws(cacheKey, data) ==
    IF "setItem" \in faulty THEN CacheResult(NullData, store, TRUE, "set")
    ELSE CacheResult(NullData, [store EXCEPT ![cacheKey] = JSON_stringify(data, now)],
                     FALSE, "set")

\* A setCachedData that stores only payloads with runs.
setCachedData_validates(cacheKey, data) ==
    IF "setItem" \in faulty \/ totalRuns(data) = 0 THEN CacheResult(NullData, store, FALSE, "set")
    ELSE CacheResult(NullData, [store EXCEPT ![cacheKey] = JSON_stringify(data, now)],
                     FALSE, "set")

\* A setCachedData that updates an existing entry in place: new data, old
\* timestamp.
setCachedData_updatesInPlace(cacheKey, data) ==
    IF "setItem" \in faulty THEN CacheResult(NullData, store, FALSE, "set")
    ELSE CacheResult(NullData,
                     [store EXCEPT ![cacheKey] =
                         IF @.kind = "object" /\ @.hasTimestamp
                         THEN JSON_stringify(data, @.timestamp)
                         ELSE JSON_stringify(data, now)],
                     FALSE, "set")

(***************************************************************************)
(* setCachedData (api.ts:50-60); a throwing setItem is swallowed.          *)
(***************************************************************************)
setCachedData(cacheKey, data) ==
    IF "setItem" \in faulty THEN CacheResult(NullData, store, FALSE, "set")
    ELSE CacheResult(NullData, [store EXCEPT ![cacheKey] = JSON_stringify(data, now)],
                     FALSE, "set")

\* if (cachedData): a HistoricalResponse object is truthy, null is not.
Truthy(data) == data.shape = "object"

(***************************************************************************)
(* What the two awaits of a fetch function deliver.  await fetch(...)      *)
(* (api.ts:77, 105): the promise rejects (network error), or a response    *)
(* arrives that is not ok (non-2xx) or ok, its body not yet read.  await   *)
(* response.json() (api.ts:83, 111), a later turn of the event loop: the   *)
(* body parses to a payload, or it is not JSON and the promise rejects.    *)
(***************************************************************************)
FetchResponse(kind, body) == [kind |-> kind, body |-> body]

Responses ==
    {FetchResponse("rejects", UndefinedData), FetchResponse("not ok", UndefinedData),
     FetchResponse("ok", UndefinedData)}

\* What response.json() settles with: a body, or the rejection for a text
\* that is no JSON.
Bodies ==
    {FetchResponse("ok", d) : d \in FetchPayloads}
        \cup {FetchResponse("not json", UndefinedData)}

\* Responses whose body holds a malformed metric: a negative number, a
\* number literal beyond the range of a double (1e999, -1e999), which
\* response.json() parses to Infinity or -Infinity, or a text such as NaN
\* or Infinity, which is not JSON, so that response.json() rejects.
MetricResponses ==
    {FetchResponse("ok", d) : d \in {POne, PNegative, PInfinite, PNegInfinite}}
        \cup {FetchResponse("not json", UndefinedData)}

\* No fetch was issued.
NoFetch == FetchResponse("none", UndefinedData)

NetworkError == "TypeError: Failed to fetch"
NotJson == "SyntaxError: Unexpected token"
MalformedMetric == "MalformedMetric"
FailedToFetch == "Error: Failed to fetch data"
StorageError == "storage error"

(***************************************************************************)
(* A call is "idle" (not made yet), "fetching" (awaiting its fetch),       *)
(* "parsing" (awaiting response.json() of an ok response) or "settled".    *)
(* Two fields record history: cached is "skipped" for a                    *)
(* forceRefresh call and else the return statement in which the call's     *)
(* getCachedData ended; overlap tells that another call for the same key   *)
(* was awaiting its fetch at some moment while this call was.              *)
(***************************************************************************)
CallState(pc, cacheKey, forceRefresh, cached, overlap) ==
    [pc |-> pc, cacheKey |-> cacheKey, forceRefresh |-> forceRefresh,
     cached |-> cached, overlap |-> overlap]

IdleCall == CallState("idle", "", FALSE, "", FALSE)
SettledCall == CallState("settled", "", FALSE, "", FALSE)

(***************************************************************************)
(* last records how the call that settled last ended.  cached and overlap  *)
(* as in the call's state; fetch and body: the response its fetch got      *)
(* ("none" without a fetch); status: "resolved" with result, or "rejected" *)
(* with error.                                                             *)
(***************************************************************************)
Outcome(cacheKey, forceRefresh, cached, response, status, result, error, overlap) ==
    [cacheKey |-> cacheKey, forceRefresh |-> forceRefresh, cached |-> cached,
     fetch |-> response.kind, body |-> response.body,
     status |-> status, result |-> result, error |-> error, overlap |-> overlap]

NoOutcome == Outcome("", FALSE, "", NoFetch, "none", UndefinedData, "", FALSE)

\* What a step of a fetch function leaves: the promise's state, the store and
\* how the cache lookup ended.
Settlement(status, result, error, s, cached) ==
    [status |-> status, result |-> result, error |-> error, store |-> s, cached |-> cached]

\* A prologue that consults the cache whatever forceRefresh is.
fetchPrologue_ignoresForce(cacheKey, forceRefresh) ==
    LET got == getCachedData(cacheKey) IN
    IF Truthy(got.ret) THEN Settlement("resolved", got.ret, "", got.store, got.path)
    ELSE Settlement("pending", UndefinedData, "", got.store, got.path)

(***************************************************************************)
(* api.ts:65-77 and api.ts:94-105: the code of a fetch function up to the  *)
(* await of its fetch.  status "pending" stands for the fetch being        *)
(* issued.                                                                 *)
(***************************************************************************)
fetchPrologue(cacheKey, forceRefresh) ==
    IF forceRefresh THEN Settlement("pending", UndefinedData, "", store, "skipped")
    ELSE LET got == getCachedData(cacheKey) IN
         IF got.throws
         THEN Settlement("rejected", UndefinedData, StorageError, got.store, got.path)
         ELSE IF Truthy(got.ret) THEN Settlement("resolved", got.ret, "", got.store, got.path)
         ELSE Settlement("pending", UndefinedData, "", got.store, got.path)

\* An epilogue that falls back to the stored entry when the fetch fails.
fetchEpilogue_fallsBack(cacheKey, response) ==
    IF response.kind # "ok"
    THEN IF store[cacheKey].kind = "object"
         THEN Settlement("resolved", store[cacheKey].data, "", store, "")
         ELSE Settlement("rejected", UndefinedData,
                         IF response.kind = "rejects" THEN NetworkError ELSE FailedToFetch,
                         store, "")
    ELSE Settlement("resolved", response.body, "", setCachedData(cacheKey, response.body).store, "")

\* An epilogue that drops the entry of the key when the fetch fails.
fetchEpilogue_removesOnFailure(cacheKey, response) ==
    IF response.kind # "ok"
    THEN Settlement("rejected", UndefinedData,
                    IF response.kind = "rejects" THEN NetworkError ELSE FailedToFetch,
                    removeItem(store, cacheKey), "")
    ELSE Settlement("resolved", response.body, "", setCachedData(cacheKey, response.body).store, "")

(***************************************************************************)
(* api.ts:77-88 and api.ts:105-116: the code of a fetch function from the  *)
(* settlement of its fetch to the return.                                  *)
(***************************************************************************)
fetchEpilogue(cacheKey, response) ==
    IF response.kind = "rejects"
    THEN Settlement("rejected", UndefinedData, NetworkError, store, "")
    ELSE IF response.kind = "not ok"
    THEN Settlement("rejected", UndefinedData, FailedToFetch, store, "")
    ELSE IF response.kind = "not json"
    THEN Settlement("rejected", UndefinedData, NotJson, store, "")
    ELSE LET set == setCachedData(cacheKey, response.body) IN
         IF set.throws THEN Settlement("rejected", UndefinedData, StorageError, set.store, "")
         ELSE Settlement("resolved", response.body, "", set.store, "")

\* Calls are numbered in the order in which they are made.
CanStart(c) == calls[c].pc = "idle" /\ \A b \in Calls : b < c => calls[b].pc # "idle"

InFlight(b, cacheKey) ==
    calls[b].pc \in {"fetching", "parsing"} /\ calls[b].cacheKey = cacheKey

\* A call of a fetch function: its code up to the await of the fetch, as it
\* acts on the cache.
CallBegins(c, cacheKey, forceRefresh) ==
    LET s == fetchPrologue(cacheKey, forceRefresh) IN
       /\ store' = s.store
       /\ IF s.status = "pending"
          THEN /\ calls' = [b \in Calls |->
                     IF b = c
                     THEN CallState("fetching", cacheKey, forceRefresh, s.cached,
                                    \E a \in Calls : InFlight(a, cacheKey))
                     ELSE IF InFlight(b, cacheKey)
                          THEN [calls[b] EXCEPT !.overlap = TRUE]
                          ELSE calls[b]]
               /\ UNCHANGED last
          ELSE /\ calls' = [calls EXCEPT ![c] = SettledCall]
               /\ last' = Outcome(cacheKey, forceRefresh, s.cached,
                                  NoFetch, s.status, s.result, s.error, FALSE)
    /\ UNCHANGED <<now, faulty>>

CallStarts(c, cacheKey, forceRefresh) ==
    /\ CanStart(c)
    /\ CallBegins(c, cacheKey, forceRefresh)

\* The call ends with the settlement s of its promise.
CallSettles(c, cacheKey, response, s) ==
    /\ store' = s.store
    /\ last' = Outcome(cacheKey, calls[c].forceRefresh, calls[c].cached,
                       response, s.status, s.result, s.error, calls[c].overlap)
    /\ calls' = [calls EXCEPT ![c] = SettledCall]
    /\ UNCHANGED <<now, faulty>>

\* api.ts:77-83 / 105-111: the fetch of call c settles.  A rejection or a
\* response that is not ok ends the call; with an ok response the call
\* awaits response.json().
FetchSettles(c, cacheKey, response) ==
    /\ calls[c].pc = "fetching"
    /\ calls[c].cacheKey = cacheKey
    /\ IF response.kind = "ok"
       THEN /\ calls' = [calls EXCEPT ![c].pc = "parsing"]
            /\ UNCHANGED <<now, store, faulty, last>>
       ELSE CallSettles(c, cacheKey, response, fetchEpilogue(cacheKey, response))

\* api.ts:83-88 / 111-116: response.json() of call c settles with the body
\* (or rejects) and the call runs to its end.
JsonSettles(c, cacheKey, response) ==
    /\ calls[c].pc = "parsing"
    /\ calls[c].cacheKey = cacheKey
    /\ CallSettles(c, cacheKey, response, fetchEpilogue(cacheKey, response))

StartCall(c, cacheKey, forceRefresh) ==
    /\ CallStarts(c, cacheKey, forceRefresh)
    /\ UNCHANGED otherVars

ResumeCall(c, cacheKey, response) ==
    /\ FetchSettles(c, cacheKey, response)
    /\ UNCHANGED otherVars

ReturnCall(c, cacheKey, response) ==
    /\ JsonSettles(c, cacheKey, response)
    /\ UNCHANGED otherVars

(***************************************************************************)
(* fetchHistoricalSummary (api.ts:65-89).                                  *)
(***************************************************************************)
fetchHistoricalSummary(c) ==
    \E days \in SummaryDays, forceRefresh \in BOOLEAN :
        StartCall(c, summaryCacheKey(days), forceRefresh)

fetchHistoricalSummary_resume(c) ==
    \E days \in SummaryDays, response \in Responses :
        ResumeCall(c, summaryCacheKey(days), response)

fetchHistoricalSummary_json(c) ==
    \E days \in SummaryDays, response \in Bodies :
        ReturnCall(c, summaryCacheKey(days), response)

(***************************************************************************)
(* fetchHistoricalByDate (api.ts:94-117).                                  *)
(***************************************************************************)
fetchHistoricalByDate(c) ==
    \E date \in Dates, forceRefresh \in BOOLEAN :
        StartCall(c, dateCacheKey(date), forceRefresh)

fetchHistoricalByDate_resume(c) ==
    \E date \in Dates, response \in Responses :
        ResumeCall(c, dateCacheKey(date), response)

fetchHistoricalByDate_json(c) ==
    \E date \in Dates, response \in Bodies :
        ReturnCall(c, dateCacheKey(date), response)

(***************************************************************************)
(* Environment: the clock advances.  Which operations of localStorage      *)
(* throw is a condition of the session, chosen with the initial state.     *)
(***************************************************************************)
Tick ==
    /\ now + TickMs <= MaxTicks * TickMs
    /\ now' = now + TickMs
    /\ UNCHANGED <<store, faulty, calls, last>>
    /\ UNCHANGED otherVars

\* Nothing throws; setItem throws (quota exceeded); every operation throws
\* (localStorage absent or access to it denied).
FaultModes == {{}, {"setItem"}, StoreOps}

(***************************************************************************)
(* Initial states: no call made yet; the store holds what earlier sessions *)
(* and other code left under the cache keys, written at time 0, with at    *)
(* least one key that holds no item.  Where every operation of the store   *)
(* throws, no item can be read, removed or written, and the store is       *)
(* empty or holds text that is no JSON.                                    *)
(***************************************************************************)
InitItems ==
    {NoItem, Garbage, NullText, Item("object", FALSE, 0, POne)}
    \cup {Item("object", TRUE, 0, d) : d \in StoredPayloads}

\* The parts of the frontend other than the fetch cache, not yet used.
NotCleared == [returned |-> "none", before |-> <<>>, inFlight |-> {}]
NotPlotted == [rendered |-> FALSE, jitRunsByMachine |-> <<>>]
\* The detail route: whether its resource is loading or has failed, the runs
\* the fetch delivered (allRuns), and what the route renders of them.
NotShown ==
    [rendered |-> FALSE, loading |-> FALSE, error |-> FALSE, delivered |-> <<>>,
     runs |-> <<>>, runsByMachine |-> <<>>, availableMachines |-> <<>>, noData |-> FALSE]
NotCompared == [nonJit |-> <<>>, jit |-> <<>>, compared |-> FALSE, rows |-> <<>>]
NoDisplay == [text |-> "", className |-> ""]
\* A speedup (types.ts:26, part_004:13): null or a number, the ratio num / den.
NullSpeedup == [isNull |-> TRUE, num |-> 0, den |-> 0]
Speedup(num, den) == [isNull |-> FALSE, num |-> num, den |-> den]
\* A machine of the detail view: whether runsByMachine() holds runs for it,
\* the speedup of its JIT run (runs.jit.speedup) and its speedup in a row of
\* the comparison across machines (row.speedups[machine]); what the cell
\* and the summary show of them.
NotFormatted ==
    [hasRuns |-> FALSE, speedup |-> NullSpeedup, cell |-> NullSpeedup,
     multiplier |-> NoDisplay, percent |-> NoDisplay]
NoTable == [shown |-> FALSE]
NoLoad == [view |-> "none"]
NoGoal == [mounted |-> FALSE]
NoTabs == [mounted |-> FALSE]
WidgetIdle ==
    /\ table = NoTable
    /\ load = NoLoad
    /\ goal = NoGoal
    /\ tabs = NoTabs
TableIdle ==
    /\ comparison = NotCompared
    /\ display = NotFormatted
    /\ WidgetIdle
ViewIdle ==
    /\ runs = <<>>
    /\ route = ""
    /\ chart = NotPlotted
    /\ detail = NotShown
    /\ TableIdle
OtherIdle ==
    /\ cleared = NotCleared
    /\ ViewIdle

\* The fetch functions not yet called, on an empty store.
CacheIdle ==
    /\ now = 0
    /\ store = [k \in CacheKeys |-> NoItem]
    /\ faulty = {}
    /\ calls = [c \in Calls |-> IdleCall]
    /\ last = NoOutcome

Init ==
    /\ now = 0
    /\ faulty \in FaultModes
    /\ store \in {s \in [CacheKeys -> InitItems] :
                    /\ \E key \in CacheKeys : s[key] = NoItem
                    /\ faulty = StoreOps => \A key \in CacheKeys : s[key] \in {NoItem, Garbage}}
    /\ calls = [c \in Calls |-> IdleCall]
    /\ last = NoOutcome
    /\ OtherIdle

Next ==
    \/ \E c \in Calls : fetchHistoricalSummary(c)
    \/ \E c \in Calls : fetchHistoricalSummary_resume(c)
    \/ \E c \in Calls : fetchHistoricalSummary_json(c)
    \/ \E c \in Calls : fetchHistoricalByDate(c)
    \/ \E c \in Calls : fetchHistoricalByDate_resume(c)
    \/ \E c \in Calls : fetchHistoricalByDate_json(c)
    \/ Tick

Spec == Init /\ [][Next]_vars

TypeOK ==
    /\ now \in 0..(MaxTicks * TickMs)
    /\ faulty \in FaultModes
    /\ DOMAIN store = CacheKeys
    /\ \A c \in Calls : calls[c].pc \in {"idle", "fetching", "parsing", "settled"}
    /\ last.status \in {"none", "resolved", "rejected"}

(***************************************************************************)
(* Vocabulary of the properties.                                           *)
(***************************************************************************)
\* data holds at least one run across all machines.
HasRun(data) ==
    /\ data.shape = "object"
    /\ data.hasMachines
    /\ \E i \in 1..Len(data.machines) : Len(data.machines[i].runs) >= 1

\* item is the text of a {data, timestamp} object.
IsEntry(item) == item.kind = "object" /\ item.hasTimestamp

\* The program can read the store.
Readable == "getItem" \notin faulty

\* This step is the call c of a fetch function for key k with forceRefresh f.
Starts(c, k, f) ==
    /\ calls[c].pc = "idle"
    /\ \/ /\ calls'[c].pc = "fetching"
          /\ calls'[c].cacheKey = k
          /\ calls'[c].forceRefresh = f
       \/ /\ calls'[c].pc = "settled"
          /\ last'.cacheKey = k
          /\ last'.forceRefresh = f

\* The started call issues its network fetch.
IssuesFetch(c) == calls'[c].pc = "fetching"

\* The started call returns data for key k without a network fetch.
ServedFromCache(c, k, data) ==
    /\ calls'[c].pc = "settled"
    /\ last'.cacheKey = k
    /\ last'.fetch = "none"
    /\ last'.status = "resolved"
    /\ last'.result = data

\* The item that holds the text of {data: body, timestamp: now}.
Written(body) == Item("object", TRUE, now, stringified(body))

\* This step is the end of call c for key k: its fetch settled.
Settles(c, k) == InFlight(c, k) /\ calls'[c].pc = "settled"

(***************************************************************************)
(* C1.  A call with forceRefresh = false that finds in a readable store,   *)
(* for its key, an entry that parses, has age now - timestamp < CACHE_TTL  *)
(* and holds at least one run returns exactly that entry's data and issues *)
(* no network fetch.                                                       *)
(***************************************************************************)
C1_CachedEntryServed ==
    [][\A c \in Calls, k \in CacheKeys :
        ( /\ Starts(c, k, FALSE)
          /\ Readable
          /\ IsEntry(store[k])
          /\ now - store[k].timestamp < CACHE_TTL
          /\ HasRun(store[k].data) )
        => /\ ServedFromCache(c, k, store[k].data)
           /\ ~IssuesFetch(c)
           /\ store' = store]_vars

\* A call was served, without a fetch, the entry that is in the store.
C1_Witness ==
    /\ last.fetch = "none"
    /\ last.status = "resolved"
    /\ last.result = PTwo
    /\ store[last.cacheKey] = Item("object", TRUE, 0, PTwo)

(***************************************************************************)
(* C2.  A cached entry whose age now - timestamp is not less than          *)
(* CACHE_TTL is never returned.  Whatever forceRefresh is, a call that     *)
(* starts while its key holds such an entry issues a fetch; the lookup of  *)
(* a call with forceRefresh = false deletes the entry (the store accepting *)
(* removeItem); and a call whose fetch fails is rejected and returns no    *)
(* data.                                                                   *)
(***************************************************************************)
C2_StaleNeverServed ==
    [][\A c \in Calls, k \in CacheKeys :
        /\ ( /\ IsEntry(store[k])
             /\ now - store[k].timestamp >= CACHE_TTL
             /\ \E f \in BOOLEAN : Starts(c, k, f) )
           => /\ IssuesFetch(c)
              /\ (Starts(c, k, FALSE) /\ "removeItem" \notin faulty) => store'[k] = NoItem
        /\ (Settles(c, k) /\ last'.fetch # "ok")
           => /\ last'.status = "rejected"
              /\ last'.result = UndefinedData]_vars

\* A lookup found an expired entry, the entry is gone, the fetch failed and
\* the call was rejected.
C2_Witness ==
    /\ last.cached = "expired"
    /\ last.fetch \in {"rejects", "not ok"}
    /\ last.status = "rejected"
    /\ store[last.cacheKey] = NoItem

(***************************************************************************)
(* C3.  A call whose fetch fails (the fetch rejects, or the response is    *)
(* not ok) is rejected with the error of the fetch: it never resolves with *)
(* data, cached or otherwise.                                              *)
(***************************************************************************)
C3_FetchFailurePropagates ==
    last.fetch \in {"rejects", "not ok"}
    => /\ last.status = "rejected"
       /\ last.result = UndefinedData
       /\ last.error = IF last.fetch = "rejects" THEN NetworkError ELSE FailedToFetch

\* A forceRefresh call was rejected for a response that was not ok while the
\* store held a valid entry for its key.
C3_Witness ==
    /\ last.fetch = "not ok"
    /\ last.status = "rejected"
    /\ last.forceRefresh
    /\ store[last.cacheKey] = Item("object", TRUE, 0, PTwo)
    /\ now - 0 < CACHE_TTL

(***************************************************************************)
(* C4.  An entry within the TTL whose payload holds no run in total        *)
(* (machines without runs, or no machines map) is never returned: the      *)
(* lookup of a call with forceRefresh = false deletes it and the call      *)
(* issues a fetch; and whatever a call returns from the cache holds a run. *)
(***************************************************************************)
C4_EmptyEntryNeverServed ==
    [][\A c \in Calls, k \in CacheKeys :
        /\ ( /\ Starts(c, k, FALSE)
             /\ Readable
             /\ IsEntry(store[k])
             /\ now - store[k].timestamp < CACHE_TTL
             /\ ~HasRun(store[k].data) )
           => /\ IssuesFetch(c)
              /\ "removeItem" \notin faulty => store'[k] = NoItem
        /\ (calls[c].pc = "idle" /\ calls'[c].pc = "settled")
           => HasRun(last'.result)]_vars

\* A lookup found an entry without runs within the TTL; the entry is gone and
\* the call awaits its fetch.
C4_Witness ==
    \E c \in Calls :
        /\ calls[c].pc = "fetching"
        /\ calls[c].cached = "empty"
        /\ store[calls[c].cacheKey] = NoItem

(***************************************************************************)
(* C5.  With forceRefresh = true the cache is not consulted: the call      *)
(* issues a fetch and leaves the store alone, also when a valid entry is   *)
(* stored for its key; when its fetch succeeds (and the store accepts      *)
(* setItem) the entry for its key becomes the fetched payload with the     *)
(* current time as timestamp, and no other key changes.                    *)
(***************************************************************************)
C5_ForceRefresh ==
    [][\A c \in Calls, k \in CacheKeys :
        /\ Starts(c, k, TRUE) => (IssuesFetch(c) /\ store' = store)
        /\ ( /\ Settles(c, k)
             /\ calls[c].forceRefresh
             /\ last'.fetch = "ok"
             /\ "setItem" \notin faulty )
           => /\ last'.status = "resolved"
              /\ last'.result = last'.body
              /\ store' = [store EXCEPT ![k] = Written(last'.body)]]_vars

\* A forceRefresh call replaced, after time 0, the entry of its key by the
\* payload it fetched.
C5_Witness ==
    /\ last.forceRefresh
    /\ last.fetch = "ok"
    /\ last.status = "resolved"
    /\ last.result = POne
    /\ now = TickMs
    /\ store[last.cacheKey] = Item("object", TRUE, TickMs, POne)

(***************************************************************************)
(* C6.  Faults of the cache layer stay inside it.  A call with             *)
(* forceRefresh = false that cannot read the store, or finds text that     *)
(* does not parse to an object, issues a fetch as if nothing were stored;  *)
(* a call whose fetch succeeds resolves with the fetched body also when    *)
(* setItem throws; and a call is rejected only with the error of a failed  *)
(* fetch (the request fails, the response is not ok, or its body is no     *)
(* JSON), never with an error of the store or of parsing a stored entry.   *)
(***************************************************************************)
C6_CacheFaultsFailOpen ==
    [][\A c \in Calls, k \in CacheKeys :
        /\ ( /\ Starts(c, k, FALSE)
             /\ (~Readable \/ store[k].kind \in {"garbage", "null"}) )
           => IssuesFetch(c)
        /\ (Settles(c, k) /\ last'.fetch = "ok")
           => /\ last'.status = "resolved"
              /\ last'.result = last'.body
        /\ ( /\ calls[c].pc # "settled"
             /\ calls'[c].pc = "settled"
             /\ last'.status = "rejected" )
           => /\ last'.fetch \in {"rejects", "not ok", "not json"}
              /\ last'.error \in {NetworkError, FailedToFetch, NotJson}]_vars

\* With every operation of the store throwing, a call whose lookup ended in
\* the catch block resolved with the body it fetched; the unparsable text it
\* could neither read, delete nor overwrite is still stored.
C6_Witness ==
    /\ faulty = StoreOps
    /\ last.cached = "caught"
    /\ last.fetch = "ok"
    /\ last.status = "resolved"
    /\ last.result = POne
    /\ store[last.cacheKey] = Garbage

(***************************************************************************)
(* C7 as stated.  Round trip: right after a call has stored the body d of  *)
(* its successful fetch with setCachedData (the store available),          *)
(* getCachedData for the same key returns d and leaves the entry in place  *)
(* (so that a call with forceRefresh = false returns d without a fetch),   *)
(* for every d.                                                            *)
(***************************************************************************)
C7_Original ==
    [][\A c \in Calls, k \in CacheKeys :
        (Settles(c, k) /\ last'.fetch = "ok" /\ faulty = {})
        => getCachedData(k)' = CacheResult(last'.body, store', FALSE, "hit")]_vars

(***************************************************************************)
(* C7 as amended.  For every d that holds at least one run getCachedData   *)
(* returns d as JSON.stringify wrote it and leaves the entry in place:     *)
(* that is d itself exactly if every metric of d is finite, and else d     *)
(* with null in place of the metrics that are not.  For a d without runs   *)
(* getCachedData deletes the entry just written and returns null, so that  *)
(* the next call has to fetch.                                             *)
(***************************************************************************)
C7_RoundTrip ==
    [][\A c \in Calls, k \in CacheKeys :
        (Settles(c, k) /\ last'.fetch = "ok" /\ faulty = {})
        => IF HasRun(last'.body)
           THEN /\ getCachedData(k)' =
                    CacheResult(stringified(last'.body), store', FALSE, "hit")
                /\ stringified(last'.body) = last'.body <=> ~hasNonFiniteMetric(last'.body)
           ELSE getCachedData(k)' =
                    CacheResult(NullData, [store' EXCEPT ![k] = NoItem], FALSE, "empty")]_vars

\* A call was served from the cache, at the time of the write, the payload
\* with null for a metric, which only a setCachedData of this session can
\* have stored, for a body whose metric was Infinity.
C7_Witness ==
    /\ last.fetch = "none"
    /\ last.status = "resolved"
    /\ last.result = PNullMetric
    /\ store[last.cacheKey] = Item("object", TRUE, now, PNullMetric)

(***************************************************************************)
(* C8 as stated.  Every entry written into the store holds a payload with  *)
(* at least one run: a successful fetch of an empty dataset creates no     *)
(* entry.                                                                  *)
(***************************************************************************)
C8_Original ==
    [][\A k \in CacheKeys :
        (store'[k] # store[k] /\ store'[k] # NoItem) => HasRun(store'[k].data)]_vars

(***************************************************************************)
(* C8 as amended.  An entry is created only by a successful fetch and      *)
(* without validation: every entry written is the body of an ok response   *)
(* of a call for that key, with the time of writing; every successful      *)
(* fetch (the store accepting setItem) writes it, also for an empty        *)
(* dataset.                                                                *)
(***************************************************************************)
C8_EntriesFromSuccessfulFetch ==
    [][\A k \in CacheKeys :
        /\ (store'[k] # store[k] /\ store'[k] # NoItem)
           => \E c \in Calls :
                 /\ Settles(c, k)
                 /\ last'.fetch = "ok"
                 /\ last'.status = "resolved"
                 /\ store'[k] = Written(last'.body)
        /\ \A c \in Calls :
              (Settles(c, k) /\ last'.fetch = "ok" /\ "setItem" \notin faulty)
              => store'[k] = Written(last'.body)]_vars

\* A successful fetch of a dataset without runs left an entry.
C8_Witness ==
    /\ last.fetch = "ok"
    /\ last.status = "resolved"
    /\ last.result = PEmpty
    /\ store[last.cacheKey] = Item("object", TRUE, now, PEmpty)

(***************************************************************************)
(* C9.  Calls for the same key that overlap are not de-duplicated and      *)
(* write whole entries.  A call that misses the cache (or has              *)
(* forceRefresh) while another call for its key awaits its fetch issues a  *)
(* fetch of its own and the other call keeps awaiting its own.  When a     *)
(* call that overlapped with another ends with a successful fetch (the     *)
(* store accepting setItem), the entry of the key is exactly its {data,    *)
(* timestamp}, whatever the other call wrote; when it ends with a failed   *)
(* fetch the store stays as it is.  So the entry after both is the one of  *)
(* the call that wrote last, never a mixture.                              *)
(***************************************************************************)
C9_OverlappingCalls ==
    [][\A c \in Calls, k \in CacheKeys :
        /\ ( /\ \E f \in BOOLEAN : Starts(c, k, f)
             /\ \E b \in Calls : InFlight(b, k)
             /\ (Starts(c, k, TRUE) \/ store[k] = NoItem) )
           => /\ IssuesFetch(c)
              /\ calls'[c].overlap
              /\ \A b \in Calls : InFlight(b, k) => (calls'[b].pc = calls[b].pc /\ calls'[b].overlap)
        /\ (Settles(c, k) /\ calls[c].overlap)
           => /\ last'.overlap
              /\ (last'.fetch = "ok" /\ "setItem" \notin faulty)
                 => store' = [store EXCEPT ![k] = Written(last'.body)]
              /\ last'.fetch # "ok" => store' = store]_vars

\* Both calls have ended, the call that ended last overlapped with the other
\* and the entry of their key is the one it wrote.
C9_Witness ==
    /\ \A c \in Calls : calls[c].pc = "settled"
    /\ last.overlap
    /\ last.cached = "absent"
    /\ last.fetch = "ok"
    /\ last.result = POne
    /\ now = TickMs
    /\ store[last.cacheKey] = Item("object", TRUE, now, POne)

(***************************************************************************)
(* C10 as stated.  The TTL of entries of fetchHistoricalByDate is strictly *)
(* longer than the TTL of entries of fetchHistoricalSummary (CACHE_TTL).   *)
(* An entry whose age has reached CACHE_TTL is no longer served to a       *)
(* summary request but lies within every strictly longer TTL: as an entry  *)
(* of fetchHistoricalByDate it is still served from the cache without a    *)
(* fetch.                                                                  *)
(***************************************************************************)
C10_Original ==
    [][\A c \in Calls, k \in DateKeys :
        ( /\ Starts(c, k, FALSE)
          /\ Readable
          /\ IsEntry(store[k])
          /\ HasRun(store[k].data)
          /\ now - store[k].timestamp = CACHE_TTL )
        => ServedFromCache(c, k, store[k].data)]_vars

(***************************************************************************)
(* C10 as amended.  Both functions apply the same TTL of 5 minutes: an     *)
(* entry with runs, of a summary key or of a date key, is served from the  *)
(* cache exactly when its age is less than 5 * 60 * 1000 ms, and else the  *)
(* call issues a fetch.                                                    *)
(***************************************************************************)
C10_SameTTL ==
    [][\A c \in Calls, k \in SummaryKeys \cup DateKeys :
        ( /\ Starts(c, k, FALSE)
          /\ Readable
          /\ IsEntry(store[k])
          /\ HasRun(store[k].data) )
        => IF now - store[k].timestamp < 5 * 60 * 1000
           THEN ServedFromCache(c, k, store[k].data)
           ELSE IssuesFetch(c)]_vars

\* The first call of the session, a call of fetchHistoricalByDate, found the
\* entry of its key expired when the clock had reached CACHE_TTL and awaits
\* its fetch.
C10_Witness ==
    \E c \in Calls :
        /\ last = NoOutcome
        /\ calls[c].pc = "fetching"
        /\ calls[c].cacheKey \in DateKeys
        /\ calls[c].cached = "expired"
        /\ now = CACHE_TTL

(***************************************************************************)
(* clearHistoricalDataCache (api.ts:119-131).                              *)
(*                                                                         *)
(* The keys of localStorage: the cache keys, the keys of the theme and of  *)
(* the goal lines, and a key that holds a cache prefix without starting    *)
(* with one.                                                               *)
(***************************************************************************)
OtherKeys == {"theme", "goalLines", "old_" \o CACHE_KEY_DATE_PREFIX \o "2025-01-15"}
StorageKeys == CacheKeys \cup OtherKeys

\* The rest of a key after a prefix, for the keys above.
KeyRests == {ToString(d) : d \in SummaryDays} \cup Dates \cup {""}

\* key.includes(prefix) in place of key.startsWith(prefix).
startsWith_includes(key, prefix) ==
    \E front \in {"", "old_"}, rest \in KeyRests : key = front \o prefix \o rest

\* String.prototype.startsWith.
startsWith(key, prefix) == \E rest \in KeyRests : key = prefix \o rest

\* Object.keys(localStorage): the keys that hold an item.
Object_keys(s) == {key \in DOMAIN s : s[key] # NoItem}

\* The store that the loop of api.ts:122-126 leaves when nothing throws.
clearedStore(s) ==
    [key \in DOMAIN s |->
        IF /\ key \in Object_keys(s)
           /\ \/ startsWith(key, CACHE_KEY_SUMMARY_PREFIX)
              \/ startsWith(key, CACHE_KEY_DATE_PREFIX)
        THEN NoItem
        ELSE s[key]]

\* The whole function: localStorage absent makes api.ts:121 throw, a
\* throwing removeItem ends the loop at the first matching key; the catch of
\* api.ts:127 swallows both and the function returns.  cleared records the
\* store before the call and the calls of the fetch functions that await
\* their fetch while it runs.
clearHistoricalDataCache ==
    /\ store' = IF faulty \cap {"getItem", "removeItem"} # {} THEN store
                ELSE clearedStore(store)
    /\ cleared' = [returned |-> "normally", before |-> store,
                   inFlight |-> {c \in Calls : calls[c].pc \in {"fetching", "parsing"}}]
    /\ UNCHANGED <<now, faulty, calls, last>>
    /\ UNCHANGED viewVars

ClearItems == {NoItem, Garbage, Item("object", TRUE, 0, POne)}

ClearInit ==
    /\ now = 0
    /\ store \in [StorageKeys -> ClearItems]
    /\ faulty \in FaultModes
    /\ calls = [c \in Calls |-> IdleCall]
    /\ last = NoOutcome
    /\ cleared = NotCleared
    /\ ViewIdle

ClearNext == clearHistoricalDataCache

ClearSpec == ClearInit /\ [][ClearNext]_vars

(***************************************************************************)
(* C11.  clearHistoricalDataCache always returns normally.  With the store *)
(* available, afterwards no key that starts with the summary or the        *)
(* by-date prefix holds an item and every other key ('theme', 'goalLines', *)
(* a key that merely contains a prefix) holds what it held before; with    *)
(* the store unavailable nothing changes.                                  *)
(***************************************************************************)
C11_ClearRemovesCacheKeysOnly ==
    cleared.returned # "none"
    => /\ cleared.returned = "normally"
       /\ faulty = {}
          => /\ \A key \in SummaryKeys \cup DateKeys : store[key] = NoItem
             /\ \A key \in StorageKeys \ (SummaryKeys \cup DateKeys) :
                   store[key] = cleared.before[key]
       /\ faulty = StoreOps => store = cleared.before

\* A call removed a summary entry and a by-date entry and left the theme, the
\* goal lines and the key that contains a prefix in place.
C11_Witness ==
    /\ cleared.returned = "normally"
    /\ faulty = {}
    /\ \A key \in SummaryKeys \cup DateKeys :
          cleared.before[key] # NoItem /\ store[key] = NoItem
    /\ \A key \in OtherKeys : store[key] # NoItem

(***************************************************************************)
(* The trend chart (PerformanceChart.tsx:482-512, 745-757) and the day     *)
(* view (App.tsx:145-239, DetailView: part_004:16-46) select, from the     *)
(* runs that a fetch delivered, the runs they show.                        *)
(*                                                                         *)
(* A BenchmarkRun (types.ts:16-29) with the fields these functions and the *)
(* properties read.  speedup is null when hasSpeedup is FALSE, else        *)
(* speedup hundredths.                                                     *)
(***************************************************************************)
BenchmarkRun(date, commit, is_jit, machine, directory_name, created_at, hasSpeedup, speedup) ==
    [date |-> date, commit |-> commit, is_jit |-> is_jit, machine |-> machine,
     directory_name |-> directory_name, created_at |-> created_at,
     hasSpeedup |-> hasSpeedup, speedup |-> speedup]

\* Values of the fields.  The dates are those of two consecutive days.
MaxRuns == 3
Machines == {"blueberry", "ripley"}
Commits == {"c1", "c2"}
\* directory_name: "" is a run whose directory_name is empty or missing
\* (run.directory_name || '', App.tsx:193).
DirectoryNames == {"", "a", "b"}
\* The directories in which the runs of a commit lie: those of c1 in any,
\* those of the later commit c2 in the last one.
DirectoriesOf == [c1 |-> DirectoryNames, c2 |-> {"b"}]
\* created_at of the runs of a commit: the runs of c2 were stored after those
\* of c1.
CreatedAts == [c1 |-> 1, c2 |-> 2]
IsoDates == <<"2025-01-15T03:00:00Z", "2025-01-16T03:00:00Z">>
RouteDates == <<"2025-01-15", "2025-01-16">>
\* is_jit and speedup: a non-JIT run (speedup is the ratio of a JIT run,
\* types.ts:26) and a JIT run with the ratio 1.05.
RunKinds == {<<FALSE, FALSE, 0>>, <<TRUE, TRUE, 105>>}

\* Runs with one of the given dates: of every commit, kind, machine and
\* directory of the commit, and for each machine a JIT run without a ratio.
RunsDated(dates) ==
    {r \in {BenchmarkRun(d, c, k[1], m, n, CreatedAts[c], k[2], k[3]) :
                d \in dates, c \in Commits, k \in RunKinds, m \in Machines,
                n \in DirectoryNames} :
        r.directory_name \in DirectoriesOf[r.commit]}
    \cup {BenchmarkRun(d, "c1", TRUE, m, "a", CreatedAts["c1"], FALSE, 0) :
        d \in dates, m \in Machines}

\* new Date(r.date).toISOString().split('T')[0] and new Date(r.date).getTime()
\* (as the number of the day) for the dates above.
toISODate(date) == RouteDates[CHOOSE i \in 1..Len(IsoDates) : IsoDates[i] = date]
getTime(date) == CHOOSE i \in 1..Len(IsoDates) : IsoDates[i] = date

\* a > b on the strings used as directory names ('' is the least string).
StringOrder == <<"", "a", "b">>
StringRank(x) == CHOOSE i \in 1..Len(StringOrder) : StringOrder[i] = x
StringGreater(a, b) == StringRank(a) > StringRank(b)

\* run.machine || 'unknown' and run.directory_name || '': a missing
\* directory_name is the directory_name "" of the run.
machineOf(run) == IF run.machine = "" THEN "unknown" ELSE run.machine
directoryNameOf(run) == IF run.directory_name = "" THEN "" ELSE run.directory_name

(***************************************************************************)
(* PerformanceChart.tsx:745-757, parsedJitRuns: the JIT runs with a        *)
(* speedup, each with its parsed date.                                     *)
(***************************************************************************)
ParsedRun(r) == [parsedDate |-> getTime(r.date), dateStr |-> toISODate(r.date)] @@ r

RECURSIVE MapParsed(_)
MapParsed(rs) == IF rs = <<>> THEN <<>> ELSE <<ParsedRun(Head(rs))>> \o MapParsed(Tail(rs))

\* The filter without its test of speedup.
isPlottable_anyJit(r) == r.is_jit

isPlottable(r) == r.is_jit /\ r.hasSpeedup

parsedJitRuns(data) == MapParsed(SelectSeq(data, isPlottable))

\* The run without the fields that parsedJitRuns added.
BenchmarkRunOf(parsed) == [f \in DOMAIN parsed \ {"parsedDate", "dateStr"} |-> parsed[f]]

(***************************************************************************)
(* PerformanceChart.tsx:482-512, groupAndDeduplicateByMachine.             *)
(***************************************************************************)
\* The comparison of PerformanceChart.tsx:500 with >= in place of >.
replaces_orEqual(run, existing) ==
    ~StringGreater(directoryNameOf(existing), directoryNameOf(run))

\* PerformanceChart.tsx:500: run replaces the run kept for its day.
replaces(run, existing) == StringGreater(directoryNameOf(run), directoryNameOf(existing))

\* PerformanceChart.tsx:496-503: the values of the Map runsByDate, in the
\* order of insertion, after the first n runs of the machine.
RECURSIVE runsByDate(_, _)
runsByDate(machineRuns, n) ==
    IF n = 0 THEN <<>>
    ELSE LET kept == runsByDate(machineRuns, n - 1)
             run == machineRuns[n]
             at == {i \in 1..Len(kept) : kept[i].dateStr = run.dateStr}
         IN IF at = {} THEN Append(kept, run)
            ELSE LET i == CHOOSE i \in at : TRUE
                 IN IF replaces(run, kept[i]) THEN [kept EXCEPT ![i] = run] ELSE kept

\* PerformanceChart.tsx:505-506: Array.prototype.sort (stable) by parsedDate.
RECURSIVE sortByParsedDate(_)
sortByParsedDate(rs) ==
    IF rs = <<>> THEN <<>>
    ELSE LET n == Len(rs)
             sorted == sortByParsedDate(SubSeq(rs, 1, n - 1))
             x == rs[n]
             before == SelectSeq(sorted, LAMBDA y : y.parsedDate <= x.parsedDate)
             after == SelectSeq(sorted, LAMBDA y : y.parsedDate > x.parsedDate)
         IN before \o <<x>> \o after

groupAndDeduplicateByMachine(parsed) ==
    LET machines == {machineOf(parsed[i]) : i \in 1..Len(parsed)} IN
    [machine \in machines |->
        LET machineRuns == SelectSeq(parsed, LAMBDA r : machineOf(r) = machine)
        IN sortByParsedDate(runsByDate(machineRuns, Len(machineRuns)))]

(***************************************************************************)
(* App.tsx:165-215, runsOnDate of DetailViewRoute.                         *)
(***************************************************************************)
\* App.tsx:174-185: the keys of a machine's commitMap, in order of insertion.
RECURSIVE commitsOf(_, _)
commitsOf(data, machine) ==
    IF data = <<>> THEN <<>>
    ELSE LET n == Len(data)
             commits == commitsOf(SubSeq(data, 1, n - 1), machine)
             run == data[n]
         IN IF machineOf(run) = machine /\ \A i \in 1..Len(commits) : commits[i] # run.commit
            THEN Append(commits, run.commit)
            ELSE commits

\* App.tsx:192-195: the reduce over the runs of a machine's commit.
RECURSIVE maxDirName(_, _, _)
maxDirName(data, machine, commit) ==
    IF data = <<>> THEN ""
    ELSE LET n == Len(data)
             max == maxDirName(SubSeq(data, 1, n - 1), machine, commit)
             run == data[n]
         IN IF /\ machineOf(run) = machine
               /\ run.commit = commit
               /\ StringGreater(directoryNameOf(run), max)
            THEN directoryNameOf(run)
            ELSE max

\* App.tsx:188-204: latestCommit and latestDirName after the first n commits
\* of the machine.
RECURSIVE latestCommit(_, _, _)
latestCommit(data, machine, n) ==
    IF n = 0 THEN [latestCommit |-> "", latestDirName |-> ""]
    ELSE LET latest == latestCommit(data, machine, n - 1)
             commit == commitsOf(data, machine)[n]
             max == maxDirName(data, machine, commit)
         IN IF StringGreater(max, latest.latestDirName)
            THEN [latestCommit |-> commit, latestDirName |-> max]
            ELSE latest

machineLatestCommit(data, machine) ==
    latestCommit(data, machine, Len(commitsOf(data, machine))).latestCommit

\* date is params.date, which the fetch was made for (App.tsx:149-152) and
\* which runsOnDate itself does not read.
runsOnDate(data, date) ==
    IF Len(data) = 0 THEN <<>>
    ELSE SelectSeq(data, LAMBDA run : run.commit = machineLatestCommit(data, machineOf(run)))

(***************************************************************************)
(* part_010:55-148, the detail route that fetches the runs of the last 100 *)
(* days (fetchHistoricalData(100)) and selects the day itself.             *)
(***************************************************************************)
\* part_010:73-77: the runs whose date, as an ISO day, is params.date.
runsForDate(data, dateStr) == SelectSeq(data, LAMBDA r : toISODate(r.date) = dateStr)

\* part_010:70-126: runsOnDate of this route; after the filter by day it
\* selects as runsOnDate of App.tsx does.
runsOnDateOfAll(data, dateStr) == runsOnDate(runsForDate(data, dateStr), dateStr)

(***************************************************************************)
(* part_004:18-46, runsByMachine and availableMachines of DetailView.      *)
(***************************************************************************)
\* The runs of a machine with the given is_jit, in the order of props.runs.
runsOfKind(rs, machine, is_jit) ==
    SelectSeq(rs, LAMBDA run : machineOf(run) = machine /\ run.is_jit = is_jit)

\* A grouping that keeps the first run of each kind.
assigned_first(rs) == rs[1]

\* part_004:28-32: each run overwrites the one assigned before it.
assigned(rs) == rs[Len(rs)]

\* part_004:38: runs.nonJit && runs.jit.
isPaired(rs, machine) ==
    runsOfKind(rs, machine, FALSE) # <<>> /\ runsOfKind(rs, machine, TRUE) # <<>>

runsByMachine(rs) ==
    LET machines == {machineOf(rs[i]) : i \in 1..Len(rs)} IN
    [machine \in {m \in machines : isPaired(rs, m)} |->
        [nonJit |-> IF runsOfKind(rs, machine, FALSE) = <<>> THEN assigned(runsOfKind(rs, machine, TRUE))
                    ELSE assigned(runsOfKind(rs, machine, FALSE)),
         jit |-> assigned(runsOfKind(rs, machine, TRUE))]]

\* part_004:46: the keys, sorted.
SortedMachines == <<"blueberry", "ripley", "unknown">>
availableMachines(grouped) == SelectSeq(SortedMachines, LAMBDA m : m \in DOMAIN grouped)

(***************************************************************************)
(* The views.  ChartView plots the runs that the summary delivered         *)
(* (App.tsx:128-137, PerformanceChart.tsx:770).  A click on a point only   *)
(* navigates (PerformanceChart.tsx:782-788, App.tsx:113-115); the router   *)
(* then mounts DetailViewRoute, whose resource fetches the runs of the day *)
(* (App.tsx:149-152), and the route renders when that fetch has settled    *)
(* (App.tsx:221-237).  The route can also be opened by its URL.            *)
(***************************************************************************)
ChartView ==
    /\ route = ""
    /\ ~chart.rendered
    /\ chart' = [rendered |-> TRUE,
                 jitRunsByMachine |-> groupAndDeduplicateByMachine(parsedJitRuns(runs))]
    /\ UNCHANGED <<runs, route, detail, cleared>>
    /\ UNCHANGED tableVars
    /\ UNCHANGED widgetVars
    /\ UNCHANGED cacheVars

\* PerformanceChart.tsx:782-788 and App.tsx:113-115: handlePointClick
\* navigates to the route of the clicked point's day.
onPointClick(dateStr) ==
    /\ chart.rendered
    /\ route = ""
    /\ \E machine \in DOMAIN chart.jitRunsByMachine :
        \E i \in 1..Len(chart.jitRunsByMachine[machine]) :
            chart.jitRunsByMachine[machine][i].dateStr = dateStr
    /\ route' = dateStr
    /\ UNCHANGED <<runs, chart, detail, cleared>>
    /\ UNCHANGED tableVars
    /\ UNCHANGED widgetVars
    /\ UNCHANGED cacheVars

\* App.tsx:270: the URL /run/:date of a day is opened without a click on a
\* point, from the chart page or as the first page of the session, before
\* ChartView was ever mounted.
openRoute(dateStr) ==
    /\ route = ""
    /\ route' = dateStr
    /\ UNCHANGED <<runs, chart, detail, cleared>>
    /\ UNCHANGED tableVars
    /\ UNCHANGED widgetVars
    /\ UNCHANGED cacheVars

\* App.tsx:145-152: the route is mounted and its resource starts
\* fetchHistoricalByDate(params.date); the route shows the LoadingSpinner.
DetailViewRoute ==
    /\ route # ""
    /\ detail = NotShown
    /\ detail' = [NotShown EXCEPT !.loading = TRUE]
    /\ UNCHANGED <<runs, route, chart, cleared>>
    /\ UNCHANGED tableVars
    /\ UNCHANGED widgetVars
    /\ UNCHANGED cacheVars

\* App.tsx:154-163 and 221-237 once the fetch has resolved: allRuns() is the
\* delivered list, and the route renders runsOnDate() of it.
DetailViewRoute_loaded(delivered) ==
    /\ detail.loading
    /\ LET shown == runsOnDate(delivered, route)
           grouped == runsByMachine(shown)
       IN detail' = [rendered |-> TRUE,
                     loading |-> FALSE,
                     error |-> FALSE,
                     delivered |-> delivered,
                     runs |-> shown,
                     runsByMachine |-> grouped,
                     availableMachines |-> availableMachines(grouped),
                     noData |-> ~(Len(shown) > 0)]
    /\ UNCHANGED <<runs, route, chart, cleared>>
    /\ UNCHANGED tableVars
    /\ UNCHANGED widgetVars
    /\ UNCHANGED cacheVars

\* The fetch has rejected (api.ts:105-110): the route has no branch for
\* historicalData.error (App.tsx:221-237) and no run is passed to
\* DetailView.  What the route shows instead is modelled with the resource
\* (load.shows).
DetailViewRoute_failed ==
    /\ detail.loading
    /\ detail' = [NotShown EXCEPT !.error = TRUE]
    /\ UNCHANGED <<runs, route, chart, cleared>>
    /\ UNCHANGED tableVars
    /\ UNCHANGED widgetVars
    /\ UNCHANGED cacheVars

\* App.tsx:217-219 (part_010:128-130): handleBack navigates to "/"; it is
\* the onBack of DetailView (part_004:189) and the button of the "No data
\* found" fallback (App.tsx:231), and the links of Header.tsx:35-41 lead to
\* "/" as well.  DetailViewRoute is unmounted, whatever its resource was
\* doing, and ChartView is mounted anew.
handleBack ==
    /\ route # ""
    /\ route' = ""
    /\ detail' = NotShown
    /\ chart' = NotPlotted
    /\ UNCHANGED <<runs, cleared>>
    /\ UNCHANGED tableVars
    /\ UNCHANGED widgetVars
    /\ UNCHANGED cacheVars

\* The elements of a list.
Range(list) == {list[i] : i \in 1..Len(list)}

\* The lists of at most n elements of S.
SeqsUpTo(S, n) == UNION {[1..k -> S] : k \in 0..n}

Reverse(list) == [i \in 1..Len(list) |-> list[Len(list) + 1 - i]]

\* What the fetch by date delivers for a day of which the summary delivers
\* the runs rs: the same runs, in the same or in the opposite order.
ByDate(rs, dateStr) ==
    LET day == SelectSeq(rs, LAMBDA r : toISODate(r.date) = dateStr)
    IN {day, Reverse(day)}

\* A list as allRuns() yields it (App.tsx:154-163): the runs of one machine
\* of data.machines after those of another, so that the runs of a machine
\* are next to each other.
ByMachine(rs) ==
    \A i, j, k \in 1..Len(rs) :
        (i < j /\ j < k /\ machineOf(rs[i]) = machineOf(rs[k]))
            => machineOf(rs[j]) = machineOf(rs[i])

\* The runs of one day, as the summary delivers them; no route is mounted
\* yet.
ViewInit ==
    /\ CacheIdle
    /\ cleared = NotCleared
    /\ runs \in {rs \in SeqsUpTo(RunsDated({IsoDates[1]}), MaxRuns) : ByMachine(rs)}
    /\ route = ""
    /\ chart = NotPlotted
    /\ detail = NotShown
    /\ TableIdle

ViewNext ==
    \/ ChartView
    \/ \E dateStr \in Range(RouteDates) : onPointClick(dateStr)
    \/ openRoute(RouteDates[1])
    \/ DetailViewRoute
    \/ \E delivered \in ByDate(runs, route) : DetailViewRoute_loaded(delivered)
    \/ DetailViewRoute_failed
    \/ handleBack

ViewSpec == ViewInit /\ [][ViewNext]_vars

(***************************************************************************)
(* Claims about the selection of the runs that the views show.             *)
(***************************************************************************)
\* The list holds exactly two runs of the machine with the flag, with the
\* directory names "a" and "b".
TwoKeyed(rs, machine, is_jit) ==
    LET candidates == runsOfKind(rs, machine, is_jit) IN
    /\ Len(candidates) = 2
    /\ {candidates[1].directory_name, candidates[2].directory_name} = {"a", "b"}

\* The run that the day view uses for the machine and the flag.
usedByDayView(machine, is_jit) ==
    IF is_jit THEN detail.runsByMachine[machine].jit
    ELSE detail.runsByMachine[machine].nonJit

\* C12 (as stated): of two runs of one machine, day and is_jit flag with the
\* directory names "a" and "b", the trend chart and the day view both use the
\* run with "b" as the machine's result, in whatever order the list holds
\* them.
C12_Original ==
    (chart.rendered /\ detail.rendered) =>
        \A machine \in Machines :
            /\ (TwoKeyed(runs, machine, TRUE)
                    /\ Len(SelectSeq(runsOfKind(runs, machine, TRUE), isPlottable)) = 2)
                => /\ Len(chart.jitRunsByMachine[machine]) = 1
                   /\ chart.jitRunsByMachine[machine][1].directory_name = "b"
            /\ \A is_jit \in BOOLEAN :
                (TwoKeyed(detail.delivered, machine, is_jit)
                        /\ machine \in DOMAIN detail.runsByMachine)
                    => usedByDayView(machine, is_jit).directory_name = "b"

\* The plottable JIT runs of the machine, in the order of the delivered list.
candidatesOf(machine) == SelectSeq(runsOfKind(runs, machine, TRUE), isPlottable)

\* The delivered list holds exactly two plottable JIT runs of the machine,
\* with equal directory names and different created_at.
EqualKeyed(machine) ==
    LET candidates == candidatesOf(machine) IN
    /\ Len(candidates) = 2
    /\ candidates[1].directory_name = candidates[2].directory_name
    /\ candidates[1].created_at # candidates[2].created_at

\* The run of the two candidates with the greater created_at.
laterCreated(machine) ==
    LET candidates == candidatesOf(machine) IN
    IF candidates[1].created_at > candidates[2].created_at THEN candidates[1] ELSE candidates[2]

\* The run that the chart plots for the machine on the day of the route.
plotted(machine) == BenchmarkRunOf(chart.jitRunsByMachine[machine][1])

\* C13 (as stated): of two candidate runs with equal directory_name the run
\* with the greater created_at is selected, in whatever order the list holds
\* them.
C13_Original ==
    (chart.rendered /\ detail.rendered) =>
        \A machine \in Machines :
            EqualKeyed(machine) =>
                /\ plotted(machine) = laterCreated(machine)
                /\ machine \in DOMAIN detail.runsByMachine
                    => detail.runsByMachine[machine].jit = laterCreated(machine)

\* C13 (amended): created_at is not consulted.  The chart plots, of the
\* plottable JIT runs of a machine that carry the plotted directory name, the
\* one that comes first in the delivered list, and no run has a greater
\* directory name; the day view uses, for each flag, the run that comes last
\* among the runs of the machine that runsOnDate kept.
C13_ListOrderDecidesEqualKeys ==
    /\ chart.rendered =>
        \A machine \in DOMAIN chart.jitRunsByMachine :
            LET candidates == candidatesOf(machine) IN
            /\ Len(chart.jitRunsByMachine[machine]) = 1
            /\ \E i \in 1..Len(candidates) :
                /\ plotted(machine) = candidates[i]
                /\ \A k \in 1..Len(candidates) :
                    /\ ~StringGreater(candidates[k].directory_name, candidates[i].directory_name)
                    /\ candidates[k].directory_name = candidates[i].directory_name => i <= k
    /\ detail.rendered =>
        \A machine \in DOMAIN detail.runsByMachine : \A is_jit \in BOOLEAN :
            LET kept == runsOfKind(detail.runs, machine, is_jit) IN
            usedByDayView(machine, is_jit) = kept[Len(kept)]

\* Two candidates with equal directory names were delivered with the earlier
\* created_at first, and both views show the machine with that first run.
C13_Witness ==
    /\ chart.rendered
    /\ detail.rendered
    /\ \E machine \in Machines :
        /\ EqualKeyed(machine)
        /\ candidatesOf(machine)[1].created_at < candidatesOf(machine)[2].created_at
        /\ plotted(machine) = candidatesOf(machine)[1]
        /\ machine \in DOMAIN detail.runsByMachine
        /\ detail.runsByMachine[machine].jit = candidatesOf(machine)[1]

\* C14 (as stated): for every machine that both views show on the day of the
\* route, the JIT run that the day view uses is the run that the chart plots
\* for that machine on that day (both fetches having delivered the same
\* list).
C14_Original ==
    (chart.rendered /\ detail.rendered /\ detail.delivered = runs) =>
        \A machine \in DOMAIN chart.jitRunsByMachine \cap DOMAIN detail.runsByMachine :
            \A i \in 1..Len(chart.jitRunsByMachine[machine]) :
                chart.jitRunsByMachine[machine][i].dateStr = route
                    => detail.runsByMachine[machine].jit
                        = BenchmarkRunOf(chart.jitRunsByMachine[machine][i])

\* C15 (as stated): the chart holds a point for a machine only if the
\* delivered runs of that machine include a baseline (non-JIT) run beside the
\* JIT run; a machine with only a JIT run yields no point.
C15_Original ==
    chart.rendered =>
        \A machine \in DOMAIN chart.jitRunsByMachine :
            runsOfKind(runs, machine, FALSE) # <<>>

\* C15 (amended): the chart holds a point for a machine exactly if the
\* delivered list holds a JIT run of that machine with a speedup, and every
\* point is such a run; baseline runs are not consulted.
C15_PointsAreJitRunsWithSpeedup ==
    chart.rendered =>
        /\ \A machine \in Machines :
            machine \in DOMAIN chart.jitRunsByMachine
                <=> \E i \in 1..Len(runs) :
                        /\ machineOf(runs[i]) = machine
                        /\ runs[i].is_jit
                        /\ runs[i].hasSpeedup
        /\ \A machine \in DOMAIN chart.jitRunsByMachine :
            \A i \in 1..Len(chart.jitRunsByMachine[machine]) :
                LET point == chart.jitRunsByMachine[machine][i] IN
                /\ point.is_jit
                /\ point.hasSpeedup
                /\ \E k \in 1..Len(runs) : runs[k] = BenchmarkRunOf(point)

\* The chart plots a machine of which only a JIT run was delivered, and omits
\* a machine whose only JIT run has no speedup.
C15_Witness ==
    /\ chart.rendered
    /\ \E machine \in DOMAIN chart.jitRunsByMachine :
        runsOfKind(runs, machine, FALSE) = <<>>
    /\ \E machine \in Machines \ DOMAIN chart.jitRunsByMachine :
        runsOfKind(runs, machine, TRUE) # <<>>

\* C16 (as stated): a machine of which only JIT runs were delivered has a
\* JIT run in the result of runsOnDate and is in neither runsByMachine nor
\* availableMachines; a machine is in availableMachines exactly if the runs
\* passed to DetailView hold a JIT run and a non-JIT run of it.
C16_Original ==
    detail.rendered =>
        /\ Range(detail.availableMachines) = DOMAIN detail.runsByMachine
        /\ \A machine \in Machines :
            /\ machine \in Range(detail.availableMachines)
                <=> /\ \E run \in Range(detail.runs) : machineOf(run) = machine /\ run.is_jit
                    /\ \E run \in Range(detail.runs) : machineOf(run) = machine /\ ~run.is_jit
            /\ (/\ \E run \in Range(detail.delivered) : machineOf(run) = machine
                /\ \A run \in Range(detail.delivered) : machineOf(run) = machine => run.is_jit)
                => /\ \E run \in Range(detail.runs) : machineOf(run) = machine /\ run.is_jit
                   /\ Range(detail.runs) \subseteq Range(detail.delivered)
                   /\ machine \notin Range(detail.availableMachines)
                   /\ machine \notin DOMAIN detail.runsByMachine

(***************************************************************************)
(* The detail route of part_010, opened for a day.  Its resource fetches   *)
(* the runs of the last 100 days (part_010:57, api.ts:184-204), which are  *)
(* runs here, and the route shows the LoadingSpinner until the fetch has   *)
(* settled (part_010:132-135).                                             *)
(***************************************************************************)
\* part_010:55-57: the route is mounted and its resource starts
\* fetchHistoricalData(100).
DetailViewRouteOfAll ==
    /\ route # ""
    /\ detail = NotShown
    /\ detail' = [NotShown EXCEPT !.loading = TRUE]
    /\ UNCHANGED <<runs, route, chart, cleared>>
    /\ UNCHANGED tableVars
    /\ UNCHANGED widgetVars
    /\ UNCHANGED cacheVars

\* part_010:59-126 and 132-148 once the fetch has resolved: the route
\* renders runsOnDate() of the delivered runs.
DetailViewRouteOfAll_loaded ==
    /\ detail.loading
    /\ LET shown == runsOnDateOfAll(runs, route)
           grouped == runsByMachine(shown)
       IN detail' = [rendered |-> TRUE,
                     loading |-> FALSE,
                     error |-> FALSE,
                     delivered |-> runs,
                     runs |-> shown,
                     runsByMachine |-> grouped,
                     availableMachines |-> availableMachines(grouped),
                     noData |-> ~(Len(shown) > 0)]
    /\ UNCHANGED <<runs, route, chart, cleared>>
    /\ UNCHANGED tableVars
    /\ UNCHANGED widgetVars
    /\ UNCHANGED cacheVars

\* The fetch has rejected (api.ts:194-197): the route has no branch for
\* historicalData.error (part_010:132-148) and nothing of the day is passed
\* to DetailView.
DetailViewRouteOfAll_failed ==
    /\ detail.loading
    /\ detail' = [NotShown EXCEPT !.error = TRUE]
    /\ UNCHANGED <<runs, route, chart, cleared>>
    /\ UNCHANGED tableVars
    /\ UNCHANGED widgetVars
    /\ UNCHANGED cacheVars

\* The runs of one machine on the two days, the JIT runs with a speedup.
RouteRuns ==
    {r \in RunsDated(Range(IsoDates)) : r.machine = "blueberry" /\ r.hasSpeedup = r.is_jit}

RouteInit ==
    /\ CacheIdle
    /\ cleared = NotCleared
    /\ runs \in SeqsUpTo(RouteRuns, MaxRuns)
    /\ route \in Range(RouteDates)
    /\ chart = NotPlotted
    /\ detail = NotShown
    /\ TableIdle

RouteNext ==
    \/ DetailViewRouteOfAll
    \/ DetailViewRouteOfAll_loaded
    \/ DetailViewRouteOfAll_failed
    \/ handleBack
    \/ \E dateStr \in Range(RouteDates) : openRoute(dateStr)

RouteSpec == RouteInit /\ [][RouteNext]_vars

(***************************************************************************)
(* The detail route of App.tsx:145-239, opened for a day.  Its resource    *)
(* fetches the runs of that day (fetchHistoricalByDate(params.date),       *)
(* App.tsx:149-152) and allRuns() is whatever that call resolves with: the *)
(* body of the response or the entry of the cache, neither of which the    *)
(* fetch function or the route compares with the day asked for             *)
(* (api.ts:94-117, App.tsx:154-215).  runs is the list delivered.          *)
(***************************************************************************)
\* Runs of the two days in directory "b".
DayRuns == {r \in RunsDated(Range(IsoDates)) : r.directory_name = "b" /\ r.hasSpeedup = r.is_jit}

DayInit ==
    /\ CacheIdle
    /\ cleared = NotCleared
    /\ runs \in {rs \in SeqsUpTo(DayRuns, MaxRuns) : ByMachine(rs)}
    /\ route \in Range(RouteDates)
    /\ chart = NotPlotted
    /\ detail = NotShown
    /\ TableIdle

DayNext ==
    \/ DetailViewRoute
    \/ DetailViewRoute_loaded(runs)
    \/ DetailViewRoute_failed
    \/ handleBack
    \/ \E dateStr \in Range(RouteDates) : openRoute(dateStr)

DaySpec == DayInit /\ [][DayNext]_vars

\* C17 (as stated): every run in the result of the day view's runsOnDate is
\* a delivered run whose date is the day of the route, whatever runs the
\* fetch delivered; when no delivered run is on that day the result is empty
\* and the view shows 'no data' and no error.
C17_Original ==
    detail.rendered =>
        /\ \A run \in Range(detail.runs) :
            /\ toISODate(run.date) = route
            /\ run \in Range(detail.delivered)
        /\ (\A run \in Range(detail.delivered) : toISODate(run.date) # route)
            => detail.runs = <<>> /\ detail.noData /\ ~detail.error

(***************************************************************************)
(* part_004:76-109, comparisonDataForMachine.  The benchmarks of a run     *)
(* (types.ts:28) are an object: its entries, a name and the mean of that   *)
(* name (types.ts:2, in hundredths of a second), in the order in which the *)
(* names were inserted, no name twice.                                     *)
(***************************************************************************)
MinMean == 180
MaxMean == 220
BenchmarkNames == {"go", "nbody", "richards"}
Entry(name, mean) == [name |-> name, mean |-> mean]
BenchmarkSets ==
    {b \in UNION {[1..n -> {Entry(name, mean) : name \in BenchmarkNames,
                                                mean \in {MinMean, MaxMean}}] :
                    n \in 0..Cardinality(BenchmarkNames)} :
        \A i, j \in 1..Len(b) : b[i].name = b[j].name => i = j}

\* Object.keys lists the names in the order of insertion.
benchmarkKeys(benchmarks) == [i \in 1..Len(benchmarks) |-> benchmarks[i].name]
namesOf(benchmarks) == {benchmarks[i].name : i \in 1..Len(benchmarks)}

\* part_004:80-85: a Set keeps the order of first insertion: the names of the
\* non-JIT run, then the new names of the JIT run.
allBenchmarks(nonJit, jit) ==
    benchmarkKeys(nonJit)
        \o SelectSeq(benchmarkKeys(jit), LAMBDA name : name \notin namesOf(nonJit))

\* benchmarks[name]?.mean ?? null
NullMean == [isNull |-> TRUE, mean |-> 0]
meanOf(benchmarks, name) ==
    IF name \in namesOf(benchmarks)
    THEN [isNull |-> FALSE,
          mean |-> benchmarks[CHOOSE i \in 1..Len(benchmarks) : benchmarks[i].name = name].mean]
    ELSE NullMean

\* part_004:88-105: diff and speedup (the ratio nonJitMean / jitMean, kept as
\* its two terms) are null unless both means are there.
ComparisonRow(name, nonJit, jit) ==
    LET nonJitMean == meanOf(nonJit, name)
        jitMean == meanOf(jit, name)
        both == ~nonJitMean.isNull /\ ~jitMean.isNull
    IN [name |-> name,
        nonjit_mean |-> nonJitMean,
        jit_mean |-> jitMean,
        diff |-> IF both THEN [isNull |-> FALSE, value |-> jitMean.mean - nonJitMean.mean]
                 ELSE [isNull |-> TRUE, value |-> 0],
        speedup |-> IF both THEN [isNull |-> FALSE, num |-> nonJitMean.mean, den |-> jitMean.mean]
                    ELSE [isNull |-> TRUE, num |-> 0, den |-> 0]]

\* A filter that keeps a row with one mean.
isComparable_either(row) == ~row.nonjit_mean.isNull \/ ~row.jit_mean.isNull

\* part_004:107
isComparable(row) == ~row.nonjit_mean.isNull /\ ~row.jit_mean.isNull

comparisonRows(nonJit, jit) ==
    LET names == allBenchmarks(nonJit, jit)
        mapped == [i \in 1..Len(names) |-> ComparisonRow(names[i], nonJit, jit)]
    IN SelectSeq(mapped, isComparable)

comparisonDataForMachine ==
    /\ ~comparison.compared
    /\ comparison' = [comparison EXCEPT
            !.compared = TRUE,
            !.rows = comparisonRows(comparison.nonJit, comparison.jit)]
    /\ UNCHANGED <<cleared, runs, route, chart, detail, display>>
    /\ UNCHANGED widgetVars
    /\ UNCHANGED cacheVars

CompareInit ==
    /\ CacheIdle
    /\ cleared = NotCleared
    /\ runs = <<>>
    /\ route = ""
    /\ chart = NotPlotted
    /\ detail = NotShown
    /\ display = NotFormatted
    /\ WidgetIdle
    /\ \E nonJit \in BenchmarkSets, jit \in BenchmarkSets :
        comparison = [nonJit |-> nonJit, jit |-> jit, compared |-> FALSE, rows |-> <<>>]

CompareNext == comparisonDataForMachine

CompareSpec == CompareInit /\ [][CompareNext]_vars

\* C18: comparisonDataForMachine returns exactly one row for each benchmark
\* name that both runs hold, with the two means of that name, and no row for
\* a name that only one run holds.
C18_RowsForNamesInBothRuns ==
    comparison.compared =>
        LET rows == comparison.rows
            both == namesOf(comparison.nonJit) \cap namesOf(comparison.jit)
        IN /\ {rows[i].name : i \in 1..Len(rows)} = both
           /\ Len(rows) = Cardinality(both)
           /\ \A i \in 1..Len(rows) :
                /\ \E e \in Range(comparison.nonJit) :
                    e.name = rows[i].name
                    /\ rows[i].nonjit_mean = [isNull |-> FALSE, mean |-> e.mean]
                /\ \E e \in Range(comparison.jit) :
                    e.name = rows[i].name
                    /\ rows[i].jit_mean = [isNull |-> FALSE, mean |-> e.mean]

\* The runs share a name, each holds a name that the other lacks, and the
\* rows were computed.
C18_Witness ==
    /\ comparison.compared
    /\ comparison.rows # <<>>
    /\ namesOf(comparison.nonJit) \ namesOf(comparison.jit) # {}
    /\ namesOf(comparison.jit) \ namesOf(comparison.nonJit) # {}

(***************************************************************************)
(* part_002:44-80, formatSpeedup and formatSpeedupPercent.  A speedup is   *)
(* null or the ratio num / den of a non-JIT mean and a JIT mean            *)
(* (part_004:94), both in hundredths of a second.                          *)
(***************************************************************************)
\* num / den in units of 1 / scale, rounded to the nearest unit as toFixed
\* does for a value that is not halfway between two units.
scaled(num, den, scale) == (2 * scale * num + den) \div (2 * den)
isHalfway(num, den, scale) ==
    /\ (2 * scale * num) % den = 0
    /\ ((2 * scale * num) \div den) % 2 = 1

\* The text of toFixed(2) and of toFixed(1) for the rounded units.
toFixed2(num, den) ==
    LET units == scaled(num, den, 100) IN
    ToString(units \div 100) \o "." \o ToString((units \div 10) % 10) \o ToString(units % 10)
toFixed1(num, den) ==
    LET units == scaled(num, den, 10) IN
    ToString(units \div 10) \o "." \o ToString(units % 10)

\* A test that compares the speedup itself with 1.
isSameSpeed_unrounded(speedup) == speedup.num = speedup.den

\* part_002:49-51, 69-71: parseFloat(speedup.toFixed(2)) === 1.00
isSameSpeed(speedup) == scaled(speedup.num, speedup.den, 100) = 100

formatSpeedup(speedup) ==
    IF speedup.isNull THEN [text |-> "-", className |-> "neutral"]
    ELSE IF isSameSpeed(speedup) THEN [text |-> "1.00x", className |-> "neutral"]
    ELSE IF speedup.num >= speedup.den
        THEN [text |-> toFixed2(speedup.num, speedup.den) \o "x faster", className |-> "faster"]
    ELSE [text |-> toFixed2(speedup.den, speedup.num) \o "x slower", className |-> "slower"]

\* A percentage taken from the reciprocal: (1 / speedup - 1) * 100.
percentSlower_reciprocal(speedup) ==
    toFixed1(100 * (speedup.den - speedup.num), speedup.num)

\* part_002:76: ((1 - speedup) * 100).toFixed(1)
percentSlower(speedup) ==
    toFixed1(100 * (speedup.den - speedup.num), speedup.den)

\* part_002:73: ((speedup - 1) * 100).toFixed(1)
percentFaster(speedup) ==
    toFixed1(100 * (speedup.num - speedup.den), speedup.den)

formatSpeedupPercent(speedup) ==
    IF speedup.isNull THEN [text |-> "-", className |-> "neutral"]
    ELSE IF isSameSpeed(speedup) THEN [text |-> "same speed", className |-> "neutral"]
    ELSE IF speedup.num >= speedup.den
        THEN [text |-> percentFaster(speedup) \o "% faster", className |-> "faster"]
    ELSE [text |-> percentSlower(speedup) \o "% slower", className |-> "slower"]

\* A summary that is not rendered.
NullDisplay == [text |-> "", className |-> "null"]
ZeroSpeedup == Speedup(0, 1)

\* !runs.jit.speedup: null, undefined or 0.
isFalsy(speedup) == speedup.isNull \/ speedup.num = 0

\* part_004:180-184
getSpeedupForMachine(hasRuns, speedup) ==
    IF ~hasRuns \/ isFalsy(speedup) THEN NullDisplay
    ELSE formatSpeedupPercent(speedup)

\* part_004:344-350: the cell of a machine that has runs, in a row of the
\* comparison across machines.
SpeedupCell ==
    /\ display.hasRuns
    /\ display.multiplier = NoDisplay
    /\ display' = [display EXCEPT !.multiplier = formatSpeedup(display.cell)]
    /\ UNCHANGED <<cleared, runs, route, chart, detail, comparison>>
    /\ UNCHANGED widgetVars
    /\ UNCHANGED cacheVars

\* part_004:223, 237-242: the overall speedup of a machine; <Show> renders
\* nothing of it when getSpeedupForMachine returns null.
SpeedupSummary ==
    /\ display.percent = NoDisplay
    /\ display' = [display EXCEPT
            !.percent = getSpeedupForMachine(display.hasRuns, display.speedup)]
    /\ UNCHANGED <<cleared, runs, route, chart, detail, comparison>>
    /\ UNCHANGED widgetVars
    /\ UNCHANGED cacheVars

\* The ratios of two means between MinMean and MaxMean of which no rounding
\* that the two functions make is halfway between two units.
Speedups ==
    {sp \in {Speedup(num, den) : num \in MinMean..MaxMean, den \in MinMean..MaxMean} :
        /\ ~isHalfway(sp.num, sp.den, 100)
        /\ ~isHalfway(sp.den, sp.num, 100)
        /\ ~isHalfway(100 * (sp.num - sp.den), sp.den, 10)
        /\ ~isHalfway(100 * (sp.den - sp.num), sp.den, 10)}

FormatInit ==
    /\ CacheIdle
    /\ cleared = NotCleared
    /\ runs = <<>>
    /\ route = ""
    /\ chart = NotPlotted
    /\ detail = NotShown
    /\ comparison = NotCompared
    /\ WidgetIdle
    /\ \/ display = NotFormatted
       \/ \E cell \in Speedups \cup {NullSpeedup} :
            \E speedup \in {cell, NullSpeedup, ZeroSpeedup} :
                display = [NotFormatted EXCEPT
                    !.hasRuns = TRUE, !.speedup = speedup, !.cell = cell]

FormatNext == SpeedupCell \/ SpeedupSummary

FormatSpec == FormatInit /\ [][FormatNext]_vars

\* The cell and the summary of the machine were made from the same speedup.
Formatted ==
    /\ display.multiplier # NoDisplay
    /\ display.percent # NoDisplay
    /\ display.cell = display.speedup

\* The speedup, rounded to 2 decimals, is 1.00: 0.995 <= num / den < 1.005.
RoundsToOne(speedup) ==
    /\ ~speedup.isNull
    /\ 199 * speedup.den <= 200 * speedup.num
    /\ 200 * speedup.num < 201 * speedup.den

\* C19: for every speedup that rounds to 1.00, above or below 1,
\* formatSpeedupPercent returns the neutral "same speed" and formatSpeedup
\* the neutral "1.00x".
C19_RoundedOneIsNeutral ==
    /\ (display.percent # NoDisplay /\ RoundsToOne(display.speedup)) =>
            display.percent = [text |-> "same speed", className |-> "neutral"]
    /\ (display.multiplier # NoDisplay /\ RoundsToOne(display.cell)) =>
            display.multiplier = [text |-> "1.00x", className |-> "neutral"]

\* A speedup below 1 that rounds to 1.00 was formatted by both functions.
C19_Witness ==
    /\ Formatted
    /\ RoundsToOne(display.speedup)
    /\ display.speedup.num < display.speedup.den
    /\ display.percent.text = "same speed"
    /\ display.multiplier.text = "1.00x"

\* The speedup is below 1 and does not round to 1.00.
Slower(speedup) ==
    /\ ~speedup.isNull
    /\ 0 < speedup.num
    /\ speedup.num < speedup.den
    /\ ~RoundsToOne(speedup)

\* m hundredths (t tenths) is the value num / den rounded to the nearest
\* hundredth (tenth).
NearestHundredths(m, num, den) ==
    /\ 2 * (m * den - 100 * num) <= den
    /\ 2 * (100 * num - m * den) <= den
NearestTenths(t, num, den) ==
    /\ 2 * (t * den - 10 * num) <= den
    /\ 2 * (10 * num - t * den) <= den

\* C20 (as stated): a speedup below 1 is formatted from the reciprocal
\* 1 / speedup in both modes; for the means 2.0 s and 2.2 s the multiplier
\* mode gives "1.10x slower" and the percent mode "10.0% slower".
C20_Original ==
    /\ (display.multiplier # NoDisplay /\ Slower(display.cell)) =>
        /\ \E m \in 100..999 :
            /\ NearestHundredths(m, display.cell.den, display.cell.num)
            /\ display.multiplier.text
                = ToString(m \div 100) \o "." \o ToString((m \div 10) % 10) \o ToString(m % 10)
                    \o "x slower"
        /\ display.cell = Speedup(200, 220) => display.multiplier.text = "1.10x slower"
    /\ (display.percent # NoDisplay /\ Slower(display.speedup)) =>
        /\ \E t \in 0..999 :
            /\ NearestTenths(t, 100 * (display.speedup.den - display.speedup.num),
                             display.speedup.num)
            /\ display.percent.text
                = ToString(t \div 10) \o "." \o ToString(t % 10) \o "% slower"
        /\ display.speedup = Speedup(200, 220) => display.percent.text = "10.0% slower"

\* C20 (amended): for a speedup below 1 the multiplier mode formats the
\* reciprocal 1 / speedup and the percent mode formats (1 - speedup) * 100;
\* for the means 2.0 s and 2.2 s they give "1.10x slower" and "9.1% slower".
C20_ReciprocalInMultiplierModeOnly ==
    /\ (display.multiplier # NoDisplay /\ Slower(display.cell)) =>
        /\ display.multiplier.className = "slower"
        /\ \E m \in 100..999 :
            /\ NearestHundredths(m, display.cell.den, display.cell.num)
            /\ display.multiplier.text
                = ToString(m \div 100) \o "." \o ToString((m \div 10) % 10) \o ToString(m % 10)
                    \o "x slower"
        /\ display.cell = Speedup(200, 220) => display.multiplier.text = "1.10x slower"
    /\ (display.percent # NoDisplay /\ Slower(display.speedup)) =>
        /\ display.percent.className = "slower"
        /\ \E t \in 0..999 :
            /\ NearestTenths(t, 100 * (display.speedup.den - display.speedup.num),
                             display.speedup.den)
            /\ display.percent.text
                = ToString(t \div 10) \o "." \o ToString(t % 10) \o "% slower"
        /\ display.speedup = Speedup(200, 220) => display.percent.text = "9.1% slower"

\* The speedup 2.0 / 2.2 was formatted by both functions.
C20_Witness ==
    /\ Formatted
    /\ display.speedup = Speedup(200, 220)
    /\ display.multiplier.text = "1.10x slower"
    /\ display.percent.text = "9.1% slower"

(***************************************************************************)
(* BenchmarkTable.tsx:10-182 and compareValues of utils (part_002:82-115). *)
(* The rows are ComparisonRows; in the table the means and the difference  *)
(* are counted in tenths of a nanosecond.                                  *)
(***************************************************************************)
\* The values that compareValues is given: null, a string or a number (the
\* ratio num / den).
NullValue == [isNull |-> TRUE, isString |-> FALSE, str |-> "", num |-> 0, den |-> 1]
StringValue(str) == [isNull |-> FALSE, isString |-> TRUE, str |-> str, num |-> 0, den |-> 1]
NumberValue(num, den) ==
    [isNull |-> FALSE, isString |-> FALSE, str |-> "", num |-> num, den |-> den]

\* a[col] of BenchmarkTable.tsx:29-30.
columnOf(row, col) ==
    CASE col = "name" -> StringValue(row.name)
      [] col = "nonjit_mean" ->
            IF row.nonjit_mean.isNull THEN NullValue ELSE NumberValue(row.nonjit_mean.mean, 1)
      [] col = "jit_mean" ->
            IF row.jit_mean.isNull THEN NullValue ELSE NumberValue(row.jit_mean.mean, 1)
      [] col = "diff" ->
            IF row.diff.isNull THEN NullValue ELSE NumberValue(row.diff.value, 1)
      [] col = "speedup" ->
            IF row.speedup.isNull THEN NullValue
            ELSE NumberValue(row.speedup.num, row.speedup.den)

\* The names of the rows in the order of their UTF-16 code units, and their
\* lower case.
CodeUnitOrder == <<"Go", "Nbody", "go", "nbody", "richards">>
codeUnitRank(str) == CHOOSE i \in 1..Len(CodeUnitOrder) : CodeUnitOrder[i] = str
toLowerCase(str) ==
    CASE str = "Go" -> "go"
      [] str = "GO" -> "go"
      [] str = "Nbody" -> "nbody"
      [] OTHER -> str

\* A comparison of strings as they are.
comparable_caseSensitive(v) == v

\* part_002:104-107
comparable(v) == IF v.isString THEN [v EXCEPT !.str = toLowerCase(v.str)] ELSE v

\* aComp > bComp for two strings or two numbers (positive denominators).
greaterThan(a, b) ==
    IF a.isString THEN codeUnitRank(a.str) > codeUnitRank(b.str)
    ELSE a.num * b.den > b.num * a.den

compareValues(a, b, direction) ==
    IF a.isNull /\ b.isNull THEN 0
    ELSE IF a.isNull THEN 1
    ELSE IF b.isNull THEN -1
    ELSE LET aComp == comparable(a)
             bComp == comparable(b)
         IN IF direction = "asc"
            THEN IF greaterThan(aComp, bComp) THEN 1
                 ELSE IF greaterThan(bComp, aComp) THEN -1 ELSE 0
            ELSE IF greaterThan(bComp, aComp) THEN 1
                 ELSE IF greaterThan(aComp, bComp) THEN -1 ELSE 0

\* Array.prototype.sort with the comparator of BenchmarkTable.tsx:28-32: a
\* stable sort, each row put behind the rows that do not compare greater.
RECURSIVE insertRow(_, _, _, _)
insertRow(sorted, row, col, dir) ==
    IF sorted = <<>> THEN <<row>>
    ELSE IF compareValues(columnOf(sorted[Len(sorted)], col), columnOf(row, col), dir) > 0
        THEN Append(insertRow(SubSeq(sorted, 1, Len(sorted) - 1), row, col, dir),
                    sorted[Len(sorted)])
    ELSE Append(sorted, row)

RECURSIVE sortedData(_, _, _)
sortedData(data, col, dir) ==
    IF data = <<>> THEN <<>>
    ELSE insertRow(sortedData(SubSeq(data, 1, Len(data) - 1), col, dir), data[Len(data)],
                   col, dir)

\* formatTime (part_002:1-16) for a time below a microsecond:
\* (seconds * 1000000000).toFixed(0) + ' ns'.
formatTime(units) == ToString((2 * units + 10) \div 20) \o " ns"

\* 0.000000001 s (BenchmarkTable.tsx:56) in tenths of a nanosecond.
DiffEpsilon == 10

abs(n) == IF n < 0 THEN 0 - n ELSE n

\* A test that takes only the difference 0 as negligible.
isNegligible_zeroOnly(diff) == diff = 0

\* BenchmarkTable.tsx:56
isNegligible(diff) == abs(diff) < DiffEpsilon

\* BenchmarkTable.tsx:52-69
formatDiff(benchmark) ==
    IF benchmark.diff.isNull THEN [text |-> "-", class |-> "neutral"]
    ELSE IF isNegligible(benchmark.diff.value) THEN [text |-> "~0 s", class |-> "neutral"]
    ELSE IF benchmark.diff.value < 0
        THEN [text |-> formatTime(abs(benchmark.diff.value)) \o " faster", class |-> "faster"]
    ELSE [text |-> formatTime(benchmark.diff.value) \o " slower", class |-> "slower"]

\* BenchmarkTable.tsx:71-89, the formatSpeedup of the table.
BenchmarkTable_formatSpeedup(benchmark) ==
    IF benchmark.speedup.isNull THEN [text |-> "-", class |-> "neutral"]
    ELSE IF scaled(benchmark.speedup.num, benchmark.speedup.den, 100) = 100
        THEN [text |-> "1.00x", class |-> "neutral"]
    ELSE IF benchmark.speedup.num < benchmark.speedup.den
        THEN [text |-> toFixed2(benchmark.speedup.den, benchmark.speedup.num) \o "x slower",
              class |-> "slower"]
    ELSE [text |-> toFixed2(benchmark.speedup.num, benchmark.speedup.den) \o "x faster",
          class |-> "faster"]

\* The code units of a lower-case string.
codeUnits(str) ==
    CASE str = "" -> <<>>
      [] str = "go" -> <<"g", "o">>
      [] str = "nb" -> <<"n", "b">>
      [] str = "nbody" -> <<"n", "b", "o", "d", "y">>

\* String.prototype.includes: query occurs in str at some position.
String_includes(str, query) ==
    LET text == codeUnits(str)
        part == codeUnits(query)
    IN \E i \in 0..(Len(text) - Len(part)) : SubSeq(text, i + 1, i + Len(part)) = part

\* BenchmarkTable.tsx:35-42: the sorted rows whose name holds the query,
\* both in lower case; all of them for the empty query.
filteredData(data, col, dir, searchQuery) ==
    LET query == toLowerCase(searchQuery) IN
    IF query = "" THEN sortedData(data, col, dir)
    ELSE SelectSeq(sortedData(data, col, dir),
                   LAMBDA row : String_includes(toLowerCase(row.name), query))

\* The body of the table (BenchmarkTable.tsx:159-172): the sorted rows that
\* the search query leaves and the two formatted cells of each.
tableBody(data, col, dir, searchQuery) ==
    LET rows == filteredData(data, col, dir, searchQuery) IN
    [rows |-> rows,
     cells |-> [i \in 1..Len(rows) |->
                    [diff |-> formatDiff(rows[i]),
                     speedup |-> BenchmarkTable_formatSpeedup(rows[i])]]]

\* The table as it is before it is rendered, for the rows data.
UnrenderedTable(data) ==
    [shown |-> FALSE, data |-> data, sortColumn |-> "name", sortDirection |-> "asc",
     searchQuery |-> "", rows |-> <<>>, cells |-> <<>>]

\* BenchmarkTable.tsx:10-182: the first rendering.
BenchmarkTable ==
    /\ ~table.shown
    /\ "data" \in DOMAIN table
    /\ LET body == tableBody(table.data, table.sortColumn, table.sortDirection,
                             table.searchQuery) IN
       table' = [table EXCEPT !.shown = TRUE, !.rows = body.rows, !.cells = body.cells]
    /\ UNCHANGED <<cleared, runs, route, chart, detail, comparison, display, load, goal, tabs>>
    /\ UNCHANGED cacheVars

\* A row with the two means.
RowOf(name, nonjit_mean, jit_mean) ==
    ComparisonRow(name, <<Entry(name, nonjit_mean)>>, <<Entry(name, jit_mean)>>)

\* Means of a few tenths of a nanosecond and means of 400 ns and a little
\* more.
MaxNoise == 24
BaseMean == 4000
CellMeans == 1..MaxNoise \cup {BaseMean + k : k \in 0..MaxNoise}

\* toFixed rounds the ratio, its reciprocal and a difference that formatTime
\* is given without a value halfway between two roundings, and the
\* difference is not the epsilon itself (on which side of it the difference
\* of two doubles falls depends on their binary representation).
RoundsPlainly(row) ==
    /\ ~isHalfway(row.speedup.num, row.speedup.den, 100)
    /\ ~isHalfway(row.speedup.den, row.speedup.num, 100)
    /\ abs(row.diff.value) # DiffEpsilon
    /\ abs(row.diff.value) > DiffEpsilon => abs(row.diff.value) % 10 # 5

CellInit ==
    /\ CacheIdle
    /\ cleared = NotCleared
    /\ runs = <<>>
    /\ route = ""
    /\ chart = NotPlotted
    /\ detail = NotShown
    /\ comparison = NotCompared
    /\ display = NotFormatted
    /\ load = NoLoad
    /\ goal = NoGoal
    /\ tabs = NoTabs
    /\ \E nonjit_mean \in CellMeans, jit_mean \in CellMeans :
        /\ RoundsPlainly(RowOf("go", nonjit_mean, jit_mean))
        /\ table = UnrenderedTable(<<RowOf("go", nonjit_mean, jit_mean)>>)

CellNext == BenchmarkTable

CellSpec == CellInit /\ [][CellNext]_vars

\* The row of the rendered table and its cells.
ShownRow == table.rows[1]
ShownCells == table.cells[1]

\* C21 (as stated): whenever the absolute difference of a row is below 1e-9
\* seconds, the difference column and the speedup column both present the
\* row as neutral, whatever the ratio of the means is.
C21_Original ==
    (table.shown /\ abs(ShownRow.diff.value) < DiffEpsilon) =>
        /\ ShownCells.diff.class = "neutral"
        /\ ShownCells.speedup.class = "neutral"

\* C21 (amended): a difference below 1e-9 seconds makes only the difference
\* column neutral ("~0 s"); the speedup column is neutral ("1.00x") exactly
\* if the ratio rounds to 1.00, whatever the difference is.
C21_NeutralDiffAndNeutralSpeedupApart ==
    table.shown =>
        /\ abs(ShownRow.jit_mean.mean - ShownRow.nonjit_mean.mean) < DiffEpsilon
            <=> ShownCells.diff = [text |-> "~0 s", class |-> "neutral"]
        /\ ShownCells.diff.class = "neutral"
            <=> abs(ShownRow.jit_mean.mean - ShownRow.nonjit_mean.mean) < DiffEpsilon
        /\ ShownCells.speedup = [text |-> "1.00x", class |-> "neutral"]
            <=> /\ 199 * ShownRow.jit_mean.mean <= 200 * ShownRow.nonjit_mean.mean
                /\ 200 * ShownRow.nonjit_mean.mean < 201 * ShownRow.jit_mean.mean
        /\ ShownCells.speedup.class = "neutral"
            <=> ShownCells.speedup.text = "1.00x"

\* The means 1.0 ns and 1.5 ns: the difference is shown as "~0 s" and the
\* speedup as "1.50x slower".
C21_Witness ==
    /\ table.shown
    /\ ShownRow.nonjit_mean.mean = 10
    /\ ShownRow.jit_mean.mean = 15
    /\ ShownCells.diff = [text |-> "~0 s", class |-> "neutral"]
    /\ ShownCells.speedup = [text |-> "1.50x slower", class |-> "slower"]

(***************************************************************************)
(* The fetch functions on an empty, working store, with responses whose    *)
(* body holds a malformed metric.                                          *)
(***************************************************************************)
MetricInit ==
    /\ CacheIdle
    /\ OtherIdle

MetricNext ==
    \E c \in Calls :
        \/ fetchHistoricalSummary(c)
        \/ fetchHistoricalByDate(c)
        \/ \E cacheKey \in CacheKeys, response \in Responses :
            ResumeCall(c, cacheKey, response)
        \/ \E cacheKey \in CacheKeys, response \in MetricResponses :
            ReturnCall(c, cacheKey, response)

MetricSpec == MetricInit /\ [][MetricNext]_vars

\* C22 (as stated): a response with a negative or non-finite metric makes
\* the call reject with MalformedMetric; the payload is neither returned
\* nor written to the cache.
C22_Original ==
    [][\A c \in Calls, k \in CacheKeys :
        (Settles(c, k) /\ (last'.fetch = "not json" \/ hasMalformedMetric(last'.body)))
            => /\ last'.status = "rejected"
               /\ last'.error = MalformedMetric
               /\ store' = store]_vars

(***************************************************************************)
(* The two routes' data resources (App.tsx:78-80, 149-152) and what each   *)
(* route renders from its resource.  A resource has the fields the         *)
(* components read: loading, error and the value its accessor returns.     *)
(* Its fetcher is fetchHistoricalSummary or fetchHistoricalByDate, so each *)
(* fetch of the resource is a call of the fetch cache above.               *)
(***************************************************************************)
\* types.ts:53: DateRange = 7 | 30 | 'all', written as strings; ChartView
\* starts with 30 (App.tsx:77), DetailViewRoute with params.date.
DateRanges == {"7", "30", "all"}
initialSource(view) == IF view = "chart" THEN "30" ELSE RouteDates[1]

\* App.tsx:79: days === 'all' ? 1000 : days.
daysOf(source) == IF source = "7" THEN 7 ELSE IF source = "30" THEN 30 ELSE 1000

\* The cache key of the fetcher's call (api.ts:66, 95).
keyOf(view, source) ==
    IF view = "chart" THEN summaryCacheKey(daysOf(source)) ELSE dateCacheKey(source)
LoadKeys ==
    {keyOf("chart", days) : days \in DateRanges} \cup {keyOf("day", initialSource("day"))}

\* Responses whose runs are BenchmarkRuns: a run with a directory name and a
\* run without one.
LoadRun(directory_name) ==
    BenchmarkRun(IsoDates[1], "c1", TRUE, "blueberry", directory_name, CreatedAts["c1"],
                 TRUE, 105)
PNamed == Response(30, TRUE, <<[name |-> "blueberry", runs |-> <<LoadRun("a")>>]>>)
PUnnamed == Response(30, TRUE, <<[name |-> "blueberry", runs |-> <<LoadRun("")>>]>>)
LoadBodies ==
    {FetchResponse("ok", d) : d \in {PNoMachines, PEmpty, PNamed, PUnnamed}}
        \cup {FetchResponse("not json", UndefinedData)}

\* historicalData(): the accessor of a resource.  On an errored resource the
\* accessor yields undefined or rethrows the error, depending on the
\* createResource in use; l.readThrows records which.
readThrows(l) == l.error /\ ~l.loading /\ l.readThrows
historicalData(l) == l.value

\* App.tsx:118: hasData = () => historicalData() !== undefined.
hasData(l) == historicalData(l).shape # "undefined"

\* App.tsx:120-142: the element ChartView returns.
ChartView_render(l) ==
    IF readThrows(l) THEN "uncaught error"
    ELSE IF ~(hasData(l) \/ l.error) THEN "LoadingSpinner"
    ELSE IF l.error THEN "ErrorState"
    ELSE "PerformanceChart"

\* App.tsx:154-163: the runs of all machines, in the order of
\* Object.values(data.machines); none without data?.machines.
RECURSIVE flatRuns(_)
flatRuns(machines) ==
    IF machines = <<>> THEN <<>> ELSE Head(machines).runs \o flatRuns(Tail(machines))
allRuns(data) ==
    IF data.shape = "object" /\ data.hasMachines THEN flatRuns(data.machines) ELSE <<>>

\* App.tsx:227: runsOnDate().length > 0.
DetailViewRoute_hasRuns(l) ==
    Len(runsOnDate(allRuns(historicalData(l)), l.source)) > 0

\* App.tsx:221-237: the element DetailViewRoute returns.
DetailViewRoute_render(l) ==
    IF l.loading THEN "LoadingSpinner"
    ELSE IF readThrows(l) THEN "uncaught error"
    ELSE IF DetailViewRoute_hasRuns(l) THEN "DetailView"
    ELSE "No data found for this date."

\* ErrorState.tsx:20-28: the "Try Again" button exists when onRetry is given,
\* and ChartView passes onRetry (App.tsx:126).  No other element has one.
hasRetry(shows) == shows = "ErrorState"

rendered(l) ==
    [l EXCEPT !.shows = IF l.view = "chart" THEN ChartView_render(l)
                        ELSE DetailViewRoute_render(l)]

\* The resource after the promise of its fetcher has settled with s: it
\* holds the data and no error, or the error and the value it had.
settled(l, s) ==
    IF s.status = "resolved"
    THEN [l EXCEPT !.loading = FALSE, !.error = FALSE, !.value = s.result]
    ELSE [l EXCEPT !.loading = FALSE, !.error = TRUE]

\* The number of fetches of a resource in one behaviour.
MaxFetches == 3

\* A call that is not in flight; the calls of a resource are numbered anew
\* when they have ended.
FreeCall(c) ==
    /\ calls[c].pc \in {"idle", "settled"}
    /\ \A b \in Calls : b < c => calls[b].pc \notin {"idle", "settled"}

\* The resource l calls its fetcher (App.tsx:79, 151), which runs up to its
\* first await (api.ts:65-77, 94-105): with a valid entry in the cache the
\* promise is settled at once, else the resource is loading.  The resource
\* follows the promise of this call, its latest, from now on.
load_fetcher(l) ==
    LET cacheKey == keyOf(l.view, l.source)
        s == fetchPrologue(cacheKey, FALSE)
    IN /\ l.fetches < MaxFetches
       /\ \E c \in Calls :
            /\ FreeCall(c)
            /\ CallBegins(c, cacheKey, FALSE)
            /\ LET fetching == [l EXCEPT !.call = c, !.fetches = @ + 1] IN
               load' = rendered(IF s.status = "pending"
                                THEN [fetching EXCEPT !.loading = TRUE]
                                ELSE settled(fetching, s))
       /\ UNCHANGED <<table, goal, tabs>>
       /\ UNCHANGED <<cleared, runs, route, chart, detail, comparison, display>>

\* createResource(source, fetcher): the resource starts its first fetch when
\* the route is mounted (App.tsx:78 for ChartView, 149-152 for
\* DetailViewRoute).
createResource(view, throws) ==
    /\ load = NoLoad
    /\ load_fetcher([view |-> view, source |-> initialSource(view),
                     loading |-> FALSE, error |-> FALSE,
                     value |-> UndefinedData, readThrows |-> throws,
                     call |-> 0, fetches |-> 0, shows |-> "nothing"])

\* api.ts:77-82, 105-110: the fetch of a call of the resource settles.  The
\* call goes on to response.json() of an ok response; else its promise
\* rejects, and the resource holds the error if the call is its latest (the
\* promise of a call that a later refetch has superseded is not followed).
fetchSettled(response) ==
    /\ load # NoLoad
    /\ \E c \in Calls :
        /\ FetchSettles(c, calls[c].cacheKey, response)
        /\ load' = IF response.kind = "ok" \/ c # load.call THEN load
                   ELSE rendered(settled(load, fetchEpilogue(calls[c].cacheKey, response)))
    /\ UNCHANGED <<table, goal, tabs>>
    /\ UNCHANGED <<cleared, runs, route, chart, detail, comparison, display>>

\* api.ts:83-88, 111-116: response.json() settles; the call writes the body
\* to the cache and its promise resolves with it, or rejects when the body
\* is no JSON.  The resource takes the outcome of its latest call only.
jsonSettled(response) ==
    /\ load # NoLoad
    /\ \E c \in Calls :
        /\ JsonSettles(c, calls[c].cacheKey, response)
        /\ load' = IF c # load.call THEN load
                   ELSE rendered(settled(load, fetchEpilogue(calls[c].cacheKey, response)))
    /\ UNCHANGED <<table, goal, tabs>>
    /\ UNCHANGED <<cleared, runs, route, chart, detail, comparison, display>>

\* App.tsx:126: onRetry={() => refetch()}, the click on "Try Again"
\* (ErrorState.tsx:21; the button is never disabled).  The resource fetches
\* again, also while an earlier retry is pending; its error stays until the
\* new fetch settles.
onRetry ==
    /\ load # NoLoad
    /\ hasRetry(load.shows)
    /\ load_fetcher(load)

\* App.tsx:77-78, 135: onDateRangeChange={setDateRange}; dateRange is the
\* resource's source, so the chart's range buttons, which are disabled while
\* the resource is loading (PerformanceChart.tsx:852-917), start a new fetch.
setDateRange(days) ==
    /\ load # NoLoad
    /\ load.view = "chart"
    /\ load.shows = "PerformanceChart"
    /\ ~load.loading
    /\ days # load.source
    /\ load_fetcher([load EXCEPT !.source = days])

\* Entries that an earlier session left under the keys of the resources.
LoadInit ==
    /\ now = 0
    /\ store \in [LoadKeys -> {NoItem, Item("object", TRUE, 0, PNamed)}]
    /\ faulty = {}
    /\ calls = [c \in Calls |-> IdleCall]
    /\ last = NoOutcome
    /\ OtherIdle

LoadNext ==
    \/ \E view \in {"chart", "day"}, throws \in BOOLEAN : createResource(view, throws)
    \/ \E response \in Responses : fetchSettled(response)
    \/ \E response \in LoadBodies : jsonSettled(response)
    \/ onRetry
    \/ \E days \in DateRanges : setDateRange(days)
    \/ Tick

LoadSpec == LoadInit /\ [][LoadNext]_vars

\* The resource's latest fetch has failed.
FetchFailed == load # NoLoad /\ load.error /\ ~load.loading

\* C23: whenever a data fetch has failed, the view that issued it shows the
\* failure together with a retry control (it shows neither the loading
\* state nor 'no data'), and activating retry issues a new fetch.
C23_Original ==
    FetchFailed =>
        /\ load.shows = "ErrorState"
        /\ hasRetry(load.shows)
        /\ ((load.fetches < MaxFetches /\ \E c \in Calls : FreeCall(c)) => ENABLED onRetry)

(***************************************************************************)
(* Sorting the table: the rows BenchmarkTable is given, a click on a       *)
(* column header, and the order of the rows shown.                         *)
(***************************************************************************)
MaxRows == 3
SortColumns == {"name", "nonjit_mean", "jit_mean", "diff", "speedup"}
SortNames == {"go", "Go", "Nbody"}

\* The means of a row: both, or the JIT mean missing.
SortMeans ==
    {<<<<Entry("x", MinMean)>>, <<Entry("x", MaxMean)>>>>,
     <<<<Entry("x", MaxMean)>>, <<Entry("x", MinMean)>>>>,
     <<<<Entry("x", MaxMean)>>, <<>>>>}
SortRow(name, means) ==
    [ComparisonRow("x", means[1], means[2]) EXCEPT !.name = name]
SortRows == {SortRow(name, means) : name \in SortNames, means \in SortMeans}

\* BenchmarkTable.tsx:15-22 and the rows shown after it (24-42, 159-172).
handleSort(column) ==
    /\ table.shown
    /\ LET dir == IF table.sortColumn = column
                  THEN (IF table.sortDirection = "asc" THEN "desc" ELSE "asc")
                  ELSE "asc"
           body == tableBody(table.data, column, dir, table.searchQuery)
       IN table' = [table EXCEPT !.sortColumn = column, !.sortDirection = dir,
                                 !.rows = body.rows, !.cells = body.cells]
    /\ UNCHANGED <<cleared, runs, route, chart, detail, comparison, display, load, goal, tabs>>
    /\ UNCHANGED cacheVars

\* What the user types into the search box.
SearchQueries == {"", "nb", "GO"}

\* BenchmarkTable.tsx:13 and 95-100: onInput of the search box sets the
\* query, and the table shows the rows that filteredData leaves (35-42,
\* 159).
setSearchQuery(query) ==
    /\ table.shown
    /\ query # table.searchQuery
    /\ LET body == tableBody(table.data, table.sortColumn, table.sortDirection, query)
       IN table' = [table EXCEPT !.searchQuery = query,
                                 !.rows = body.rows, !.cells = body.cells]
    /\ UNCHANGED <<cleared, runs, route, chart, detail, comparison, display, load, goal, tabs>>
    /\ UNCHANGED cacheVars

SortInit ==
    /\ CacheIdle
    /\ cleared = NotCleared
    /\ runs = <<>>
    /\ route = ""
    /\ chart = NotPlotted
    /\ detail = NotShown
    /\ comparison = NotCompared
    /\ display = NotFormatted
    /\ load = NoLoad
    /\ goal = NoGoal
    /\ tabs = NoTabs
    /\ \E data \in [1..MaxRows -> SortRows] : table = UnrenderedTable(data)

SortNext ==
    \/ BenchmarkTable
    \/ \E column \in SortColumns : handleSort(column)
    \/ \E query \in SearchQueries : setSearchQuery(query)

SortSpec == SortInit /\ [][SortNext]_vars

\* The value of the sort column in the i-th row shown.
ShownValue(i) == columnOf(table.rows[i], table.sortColumn)

\* a is strictly below b: numbers by their value, strings by their lower
\* case.
Below(a, b) ==
    IF a.isString
    THEN codeUnitRank(toLowerCase(a.str)) < codeUnitRank(toLowerCase(b.str))
    ELSE a.num * b.den < b.num * a.den

\* C24: in the rows shown, sorted with compareValues, a row whose value is
\* null comes after every row with a value, in direction 'asc' and in
\* direction 'desc'; the rows with a value are in ascending order for 'asc'
\* and in descending order for 'desc', strings compared without regard to
\* case.
C24_NullsLastValuesOrdered ==
    table.shown =>
        \A i \in 1..Len(table.rows) : \A j \in (i + 1)..Len(table.rows) :
            /\ ShownValue(i).isNull => ShownValue(j).isNull
            /\ (~ShownValue(i).isNull /\ ~ShownValue(j).isNull) =>
                   IF table.sortDirection = "asc"
                   THEN ~Below(ShownValue(j), ShownValue(i))
                   ELSE ~Below(ShownValue(i), ShownValue(j))

\* A table sorted by the JIT mean in descending order whose rows had a null
\* before a value and a smaller value before a greater one.
C24_Witness ==
    /\ table.shown
    /\ table.sortColumn = "jit_mean"
    /\ table.sortDirection = "desc"
    /\ table.data[1].jit_mean.isNull
    /\ ~table.data[2].jit_mean.isNull
    /\ ~table.data[3].jit_mean.isNull
    /\ table.data[2].jit_mean.mean < table.data[3].jit_mean.mean
    /\ table.rows = <<table.data[3], table.data[2], table.data[1]>>

(***************************************************************************)
(* clearHistoricalDataCache between the calls of the fetch functions: a    *)
(* call that awaits its fetch (api.ts:77, 105) leaves the thread to other  *)
(* code, clearHistoricalDataCache included.                                *)
(***************************************************************************)
RaceItems == {NoItem, Item("object", TRUE, 0, POne)}

RaceInit ==
    /\ now = 0
    /\ store \in [CacheKeys -> RaceItems]
    /\ faulty \in {{}, {"setItem"}}
    /\ calls = [c \in Calls |-> IdleCall]
    /\ last = NoOutcome
    /\ OtherIdle

RaceNext ==
    \/ \E c \in Calls : fetchHistoricalSummary(c)
    \/ \E c \in Calls : fetchHistoricalSummary_resume(c)
    \/ \E c \in Calls : fetchHistoricalSummary_json(c)
    \/ \E c \in Calls : fetchHistoricalByDate(c)
    \/ \E c \in Calls : fetchHistoricalByDate_resume(c)
    \/ \E c \in Calls : fetchHistoricalByDate_json(c)
    \/ clearHistoricalDataCache

RaceSpec == RaceInit /\ [][RaceNext]_vars

\* clearHistoricalDataCache has returned and no fetch has completed
\* successfully since: no key with a cache prefix holds an item.
Emptied == cleared.returned = "normally" /\ \A k \in CacheKeys : store[k] = NoItem

\* C25 (as stated): after clearHistoricalDataCache has returned, a fetch
\* that was in flight when it ran does not re-create an entry when it
\* completes.
C25_Original ==
    [][\A c \in Calls, k \in CacheKeys :
        (Emptied /\ c \in cleared.inFlight /\ Settles(c, k)) => store'[k] = NoItem]_vars

\* C25 (amended): clearHistoricalDataCache leaves no item under a key with a
\* cache prefix, and a key stays without an item until a fetch for that key
\* completes successfully, which writes the entry of the body it got at the
\* current time; that holds for a fetch started after the clear and equally
\* for a fetch that was in flight when the clear ran, which does re-create
\* the entry (unless setItem throws).
C25_AnyCompletedFetchRecreates ==
    [][/\ cleared'.returned = "normally" /\ calls' = calls
          => \A k \in CacheKeys : store'[k] = NoItem
       /\ \A k \in CacheKeys :
            (Emptied /\ store'[k] # NoItem)
                => \E c \in Calls :
                     /\ Settles(c, k)
                     /\ last'.fetch = "ok"
                     /\ store'[k] = Written(last'.body)
       /\ \A c \in Calls, k \in CacheKeys :
            ( /\ Emptied
              /\ c \in cleared.inFlight
              /\ Settles(c, k)
              /\ last'.fetch = "ok"
              /\ "setItem" \notin faulty )
                => store'[k] = Written(last'.body)]_vars

\* A call that awaited its fetch while clearHistoricalDataCache emptied the
\* store has completed and its key holds the entry of the body it got, a
\* body without runs.
C25_Witness ==
    /\ cleared.returned = "normally"
    /\ \E k \in CacheKeys : cleared.before[k] # NoItem
    /\ cleared.inFlight # {}
    /\ \A c \in cleared.inFlight : calls[c].pc = "settled"
    /\ last.fetch = "ok"
    /\ last.body = PEmpty
    /\ store[last.cacheKey] = Item("object", TRUE, now, PEmpty)

(***************************************************************************)
(* C26.  A call with forceRefresh = true whose fetch fails leaves the      *)
(* store unchanged: neither its code up to the await nor its code after    *)
(* the failed fetch changes an item, so an entry of its key keeps its data *)
(* and its timestamp and no other key is touched; the call rejects.        *)
(***************************************************************************)
C26_FailedForcedRefreshKeepsStore ==
    [][\A c \in Calls, k \in CacheKeys :
        /\ Starts(c, k, TRUE) => (store' = store /\ IssuesFetch(c))
        /\ (Settles(c, k) /\ calls[c].forceRefresh /\ last'.fetch # "ok")
              => /\ store' = store
                 /\ last'.status = "rejected"]_vars

\* A forced refresh of a key whose entry was written at time 0 has failed
\* one tick later with a response that is not ok; the entry is as it was.
C26_Witness ==
    /\ last.forceRefresh
    /\ last.fetch = "not ok"
    /\ last.status = "rejected"
    /\ now = TickMs
    /\ store[last.cacheKey] = Item("object", TRUE, 0, PTwo)

(***************************************************************************)
(* The day view on runs whose directory_name may be empty or missing (both *)
(* read as '' by App.tsx:193).                                             *)
(***************************************************************************)
UnnamedRuns ==
    {BenchmarkRun(IsoDates[1], c, k[1], m, n, CreatedAts[c], k[2], k[3]) :
        c \in Commits, k \in RunKinds, m \in Machines, n \in {"", "a"}}

UnnamedInit ==
    /\ CacheIdle
    /\ cleared = NotCleared
    /\ runs \in {rs \in SeqsUpTo(UnnamedRuns, MaxRuns) : ByMachine(rs)}
    /\ route = RouteDates[1]
    /\ chart = NotPlotted
    /\ detail = NotShown
    /\ TableIdle

UnnamedNext ==
    \/ DetailViewRoute
    \/ \E delivered \in ByDate(runs, route) : DetailViewRoute_loaded(delivered)
    \/ DetailViewRoute_failed

UnnamedSpec == UnnamedInit /\ [][UnnamedNext]_vars

\* The machines of a list of runs.
machinesOf(rs) == {machineOf(rs[i]) : i \in 1..Len(rs)}

\* C27: runsOnDate never drops a machine: every machine with at least one
\* run in the input has at least one run in the output, whatever the
\* directory_name and commit values are, directory_name empty or missing on
\* all runs of a machine included.
C27_Original ==
    detail.rendered => machinesOf(detail.delivered) \subseteq machinesOf(detail.runs)

(***************************************************************************)
(* The goal lines of the chart (App.tsx:15-100, PerformanceChart.tsx:       *)
(* 852-917).  A string is the sequence of its characters; a number is kept *)
(* in tenths (7.5 is 75), NaN apart.  goal holds the goalLines signal, the *)
(* error of the custom input, the goals parameter of the URL and the item  *)
(* 'goalLines' of localStorage, and the event handled last with the value  *)
(* of the input.                                                           *)
(***************************************************************************)
GOAL_LINE_MIN == 1
GOAL_LINE_MAX == 20

Digits == {ToString(k) : k \in 0..9}
digitOf(ch) == CHOOSE k \in 0..9 : ToString(k) = ch

NaN == [isNaN |-> TRUE, tenths |-> 0]
Num(tenths) == [isNaN |-> FALSE, tenths |-> tenths]

\* A validation without the upper limit.
isValidGoalValue_noMax(num) == ~num.isNaN /\ num.tenths >= GOAL_LINE_MIN * 10

\* types.ts:66-68
isValidGoalValue(num) ==
    ~num.isNaN /\ num.tenths >= GOAL_LINE_MIN * 10 /\ num.tenths <= GOAL_LINE_MAX * 10

\* The value of the leading digits of chars, and what follows them.
RECURSIVE leadingDigits(_, _, _)
leadingDigits(chars, value, count) ==
    IF chars # <<>> /\ Head(chars) \in Digits
    THEN leadingDigits(Tail(chars), 10 * value + digitOf(Head(chars)), count + 1)
    ELSE [value |-> value, count |-> count, rest |-> chars]

\* parseInt(val, 10) of a string without leading white space: an optional
\* sign and digits, the rest ignored; NaN without a digit.
parseInt(val) ==
    LET negative == val # <<>> /\ Head(val) = "-"
        int == leadingDigits(IF negative THEN Tail(val) ELSE val, 0, 0)
    IN IF int.count = 0 THEN NaN
       ELSE Num(IF negative THEN 0 - 10 * int.value ELSE 10 * int.value)

\* parseFloat(v) of a string with at most one digit after the point.
parseFloat(v) ==
    LET negative == v # <<>> /\ Head(v) = "-"
        int == leadingDigits(IF negative THEN Tail(v) ELSE v, 0, 0)
        frac == IF int.rest # <<>> /\ Head(int.rest) = "."
                THEN leadingDigits(Tail(int.rest), 0, 0)
                ELSE [value |-> 0, count |-> 0, rest |-> int.rest]
        tenths == 10 * int.value + frac.value
    IN IF int.count = 0 /\ frac.count = 0 THEN NaN
       ELSE Num(IF negative THEN 0 - tenths ELSE tenths)

\* String(num) of a number from 0 to 99.9.
digitsOf(n) == IF n < 10 THEN <<ToString(n)>> ELSE <<ToString(n \div 10), ToString(n % 10)>>
String(tenths) ==
    digitsOf(tenths \div 10)
        \o (IF tenths % 10 = 0 THEN <<>> ELSE <<".", ToString(tenths % 10)>>)

\* goals.split(',') and values.join(',').
RECURSIVE split(_)
split(chars) ==
    IF chars = <<>> THEN <<<<>>>>
    ELSE LET values == split(Tail(chars)) IN
         IF Head(chars) = "," THEN <<<<>>>> \o values
         ELSE <<<<Head(chars)>> \o Head(values)>> \o Tail(values)

RECURSIVE join(_)
join(values) ==
    IF Len(values) = 1 THEN values[1]
    ELSE values[1] \o <<",">> \o join(Tail(values))

none == <<"n", "o", "n", "e">>

NullCustom == [isNull |-> TRUE, tenths |-> 0]
Custom(tenths) == [isNull |-> FALSE, tenths |-> tenths]
GoalLines(show5, show10, custom) == [show5 |-> show5, show10 |-> show10, custom |-> custom]

\* App.tsx:26-35: the custom value after the first n values.
RECURSIVE customOf(_, _)
customOf(values, n) ==
    IF n = 0 THEN NullCustom
    ELSE LET v == values[n]
             num == parseFloat(v)
         IN IF v # <<"5">> /\ v # <<"1", "0">> /\ isValidGoalValue(num)
            THEN Custom(num.tenths)
            ELSE customOf(values, n - 1)

includes(values, v) == \E i \in 1..Len(values) : values[i] = v

\* App.tsx:18-42
parseGoalLinesFromString(goals) ==
    IF goals = none THEN GoalLines(FALSE, FALSE, NullCustom)
    ELSE LET values == split(goals) IN
         GoalLines(includes(values, <<"5">>), includes(values, <<"1", "0">>),
                   customOf(values, Len(values)))

\* params.get('goals') and localStorage.getItem: null, or a string.
NoString == [isNull |-> TRUE, text |-> <<>>]
Str(text) == [isNull |-> FALSE, text |-> text]

\* App.tsx:45-64, for the goals parameter and the stored item.
getInitialGoalLines(goals, stored) ==
    IF ~goals.isNull /\ goals.text # <<>> THEN parseGoalLinesFromString(goals.text)
    ELSE IF ~stored.isNull /\ stored.text = none THEN GoalLines(FALSE, FALSE, NullCustom)
    ELSE IF ~stored.isNull /\ stored.text # <<>> THEN parseGoalLinesFromString(stored.text)
    ELSE GoalLines(TRUE, FALSE, NullCustom)

\* App.tsx:67-73
serializeGoalLines(goalLines) ==
    LET values == (IF goalLines.show5 THEN <<<<"5">>>> ELSE <<>>)
                  \o (IF goalLines.show10 THEN <<<<"1", "0">>>> ELSE <<>>)
                  \o (IF ~goalLines.custom.isNull THEN <<String(goalLines.custom.tenths)>>
                      ELSE <<>>)
    IN IF Len(values) > 0 THEN Str(join(values)) ELSE NoString

\* App.tsx:88-100: the effect that follows every change of goalLines; it
\* leaves the URL with the serialized goal lines (or without the parameter)
\* and stores them, or 'none'.
synced(g, goalLines, error, event, val) ==
    LET serialized == serializeGoalLines(goalLines)
        truthy == ~serialized.isNull /\ serialized.text # <<>>
    IN [mounted |-> TRUE, goalLines |-> goalLines, customInputError |-> error,
        url |-> IF truthy THEN serialized ELSE NoString,
        stored |-> IF truthy THEN serialized ELSE Str(none),
        event |-> event, val |-> val]

\* Values of the goals parameter and of the stored item that the page may be
\* opened with.
InitialStrings ==
    {NoString, Str(<<>>), Str(none), Str(<<"5">>), Str(<<"1", "0">>),
     Str(<<"5", ",", "1", "0", ",", "7">>), Str(<<"7", ".", "5">>), Str(<<"0", "5">>),
     Str(<<"2", "1">>), Str(<<"0">>), Str(<<"a", "b", "c">>), Str(<<"1", "2", ",", "3">>)}

\* Values of the custom input.
InputValues ==
    {<<>>, <<"0">>, <<"1">>, <<"5">>, <<"7">>, <<"1", "0">>, <<"2", "0">>, <<"2", "1">>,
     <<"7", ".", "5">>, <<"-", "3">>}

goalFrame ==
    /\ UNCHANGED <<table, load, tabs>>
    /\ UNCHANGED <<now, store, faulty, calls, last>>
    /\ UNCHANGED <<cleared, runs, route, chart, detail, comparison, display>>

\* App.tsx:82-100: ChartView is created, on the first visit or on a reload
\* that keeps the URL or opens the page without the parameter.
createSignal_goalLines(keepsParam) ==
    /\ goal' = synced(goal, getInitialGoalLines(IF keepsParam THEN goal.url ELSE NoString,
                                                goal.stored),
                      FALSE, "create", <<>>)
    /\ goalFrame

\* PerformanceChart.tsx:855
toggleShow5 ==
    /\ goal.mounted
    /\ goal' = synced(goal, [goal.goalLines EXCEPT !.show5 = ~@], goal.customInputError,
                      "toggle", <<>>)
    /\ goalFrame

\* PerformanceChart.tsx:865
toggleShow10 ==
    /\ goal.mounted
    /\ goal' = synced(goal, [goal.goalLines EXCEPT !.show10 = ~@], goal.customInputError,
                      "toggle", <<>>)
    /\ goalFrame

\* PerformanceChart.tsx:887-901
onInput(val) ==
    /\ goal.mounted
    /\ IF val = <<>>
       THEN goal' = synced(goal, [goal.goalLines EXCEPT !.custom = NullCustom], FALSE,
                           "input", val)
       ELSE LET num == parseInt(val) IN
            IF isValidGoalValue(num)
            THEN goal' = synced(goal, [goal.goalLines EXCEPT !.custom = Custom(num.tenths)],
                                FALSE, "input", val)
            ELSE goal' = [goal EXCEPT !.customInputError = TRUE, !.event = "input",
                                      !.val = val]
    /\ goalFrame

\* PerformanceChart.tsx:902
onBlur ==
    /\ goal.mounted
    /\ goal' = [goal EXCEPT !.customInputError = FALSE, !.event = "blur", !.val = <<>>]
    /\ goalFrame

\* PerformanceChart.tsx:909-917: the clear button, shown without an error
\* and with a custom value.
clearCustom ==
    /\ goal.mounted
    /\ ~goal.customInputError
    /\ ~goal.goalLines.custom.isNull
    /\ goal' = synced(goal, [goal.goalLines EXCEPT !.custom = NullCustom],
                      goal.customInputError, "clear", <<>>)
    /\ goalFrame

GoalInit ==
    /\ CacheIdle
    /\ cleared = NotCleared
    /\ runs = <<>>
    /\ route = ""
    /\ chart = NotPlotted
    /\ detail = NotShown
    /\ comparison = NotCompared
    /\ display = NotFormatted
    /\ table = NoTable
    /\ load = NoLoad
    /\ tabs = NoTabs
    /\ \E url \in InitialStrings, stored \in InitialStrings :
        goal = [mounted |-> FALSE, url |-> url, stored |-> stored]

GoalNext ==
    \/ \E keepsParam \in BOOLEAN : createSignal_goalLines(keepsParam)
    \/ toggleShow5
    \/ toggleShow10
    \/ \E val \in InputValues : onInput(val)
    \/ onBlur
    \/ clearCustom

GoalSpec == GoalInit /\ [][GoalNext]_vars

\* The goal lines have a custom value that the input can set: null or an
\* integer.
SetThroughUI(goalLines) == goalLines.custom.isNull \/ goalLines.custom.tenths % 10 = 0

\* C28: the goal lines round-trip through their persistence: for every
\* value g of goalLines reachable through the UI, getInitialGoalLines on what
\* the sync effect left (the goals parameter and the stored item, or the
\* stored item alone) yields g.
C28_Original ==
    (goal.mounted /\ SetThroughUI(goal.goalLines)) =>
        /\ getInitialGoalLines(goal.url, goal.stored) = goal.goalLines
        /\ getInitialGoalLines(NoString, goal.stored) = goal.goalLines

\* The custom value is null or lies within the limits.
WithinLimits(custom) ==
    custom.isNull
    \/ (custom.tenths >= GOAL_LINE_MIN * 10 /\ custom.tenths <= GOAL_LINE_MAX * 10)

\* C29: goalLines.custom is always null or a number from GOAL_LINE_MIN to
\* GOAL_LINE_MAX, whatever the URL parameter and the stored value were and
\* whatever events follow; an input that is not valid leaves goalLines
\* unchanged and only sets the error of the input.
C29_CustomWithinLimits ==
    [][/\ goal'.mounted => WithinLimits(goal'.goalLines.custom)
       /\ ( /\ goal.mounted
            /\ goal'.event = "input"
            /\ goal'.val # <<>>
            /\ ~WithinLimits(Custom(parseInt(goal'.val).tenths)) \/ parseInt(goal'.val).isNaN )
          => /\ goal'.goalLines = goal.goalLines
             /\ goal'.customInputError
             /\ goal'.url = goal.url
             /\ goal'.stored = goal.stored]_vars

\* The input was given 21 while the custom value was 20: the value is kept
\* and the error is shown.
C29_Witness ==
    /\ goal.mounted
    /\ goal.event = "input"
    /\ goal.val = <<"2", "1">>
    /\ goal.customInputError
    /\ goal.goalLines.custom = Custom(200)

(***************************************************************************)
(* The tabs of DetailView (part_004:46-49, 274-371): one tab per available *)
(* machine and, with more than one machine, the tab 'compare'.  tabs holds *)
(* props.runs and the signal selectedTab.                                  *)
(***************************************************************************)
\* The runs of a machine in props.runs: none, a non-JIT run, a JIT run, or
\* both.  The machine '' is shown as 'unknown'.
TabMachines == <<"blueberry", "ripley", "">>
RunsPresent == {"none", "nonJit", "jit", "both"}
tabRun(machine, is_jit) ==
    BenchmarkRun(IsoDates[1], "c1", is_jit, machine, "a", CreatedAts["c1"], is_jit,
                 IF is_jit THEN 105 ELSE 0)
RECURSIVE propsRunsOf(_, _)
propsRunsOf(present, n) ==
    IF n = 0 THEN <<>>
    ELSE propsRunsOf(present, n - 1)
         \o (IF present[n] \in {"nonJit", "both"} THEN <<tabRun(TabMachines[n], FALSE)>> ELSE <<>>)
         \o (IF present[n] \in {"jit", "both"} THEN <<tabRun(TabMachines[n], TRUE)>> ELSE <<>>)
PropsRuns == {propsRunsOf(present, Len(TabMachines)) :
                present \in [1..Len(TabMachines) -> RunsPresent]}

tabMachines(t) == availableMachines(runsByMachine(t.runs))

\* part_004:48: availableMachines()[0] || 'compare'.
getInitialTab(rs) ==
    LET machines == availableMachines(runsByMachine(rs)) IN
    IF Len(machines) > 0 THEN machines[1] ELSE "compare"

\* part_004:299 and 362-371: the tab bodies that are displayed.
tabBodies(t) ==
    (IF t.selectedTab = "compare" /\ Len(tabMachines(t)) > 1 THEN {"compare"} ELSE {})
    \cup {tabMachines(t)[i] : i \in {j \in 1..Len(tabMachines(t)) :
                                        t.selectedTab = tabMachines(t)[j]}}

tabsFrame ==
    /\ UNCHANGED <<table, load, goal>>
    /\ UNCHANGED <<now, store, faulty, calls, last>>
    /\ UNCHANGED <<cleared, runs, route, chart, detail, comparison, display>>

\* part_004:16-49: the component is created with props.runs.
DetailView(rs) ==
    /\ ~tabs.mounted
    /\ tabs' = [mounted |-> TRUE, runs |-> rs, selectedTab |-> getInitialTab(rs)]
    /\ tabsFrame

\* part_004:277-285: a click on the tab of a machine.
setSelectedTab(machine) ==
    /\ tabs.mounted
    /\ \E i \in 1..Len(tabMachines(tabs)) : tabMachines(tabs)[i] = machine
    /\ tabs' = [tabs EXCEPT !.selectedTab = machine]
    /\ tabsFrame

\* part_004:287-294: a click on the tab 'Compare', shown with more than one
\* machine.
setSelectedTab_compare ==
    /\ tabs.mounted
    /\ Len(tabMachines(tabs)) > 1
    /\ tabs' = [tabs EXCEPT !.selectedTab = "compare"]
    /\ tabsFrame

\* props.runs changes: the memos runsByMachine and availableMachines
\* (part_004:18-46) are computed again; nothing writes selectedTab.
propsRuns(rs) ==
    /\ tabs.mounted
    /\ rs # tabs.runs
    /\ tabs' = [tabs EXCEPT !.runs = rs]
    /\ tabsFrame

TabInit ==
    /\ CacheIdle
    /\ cleared = NotCleared
    /\ runs = <<>>
    /\ route = ""
    /\ chart = NotPlotted
    /\ detail = NotShown
    /\ comparison = NotCompared
    /\ display = NotFormatted
    /\ table = NoTable
    /\ load = NoLoad
    /\ goal = NoGoal
    /\ tabs = NoTabs

TabNext ==
    \/ \E rs \in PropsRuns : DetailView(rs)
    \/ \E machine \in {"blueberry", "ripley", "unknown"} : setSelectedTab(machine)
    \/ setSelectedTab_compare
    \/ \E rs \in PropsRuns : propsRuns(rs)

TabSpec == TabInit /\ [][TabNext]_vars

\* C30: whenever DetailView has at least one available machine, exactly one
\* tab body is displayed: selectedTab is one of the available machines, or
\* it is 'compare' and more than one machine is available; that holds after
\* any clicks on tabs and any changes of props.runs.
C30_Original ==
    (tabs.mounted /\ Len(tabMachines(tabs)) > 0) =>
        /\ Cardinality(tabBodies(tabs)) = 1
        /\ \/ \E i \in 1..Len(tabMachines(tabs)) : tabs.selectedTab = tabMachines(tabs)[i]
           \/ (tabs.selectedTab = "compare" /\ Len(tabMachines(tabs)) > 1)

====
